---- MODULE Spec2Model ----
(***************************************************************************)
(* Model of the ingestion pipeline of the aqi repository:                  *)
(*   reader -> DataCache.append -> DataCache.run -> DataClient.insert_batch*)
(*   -> network -> SensorDataHandler.data -> PMS5003Database.insert_batch. *)
(* Spec is the edge-to-server pipeline.  SpecLive is Spec with the         *)
(* scheduling fairness of the flush thread.  SpecIngest drives the         *)
(* server's request handler with requests of any shape.  SpecServer runs   *)
(* the handlers of the worker threads statement by statement on the one    *)
(* database connection they share.  SpecBatch handles one request under    *)
(* recorded conditions of the database and of dbus-send.  SpecAqi applies  *)
(* convert_aqi to every concentration.  SpecReader is the edge process     *)
(* reading frames from the serial port, SpecArduino the edge process       *)
(* reading lines of the arduino.  SpecLegacy is the receiver of src/v3.    *)
(* SpecFan is the fan controller notified of new data.  SpecOAuth is the   *)
(* OAuth handler of the Google Home integration.                           *)
(***************************************************************************)
EXTENDS Integers, Sequences, FiniteSets, Bags, TLC

VARIABLES
    cache,          \* DataCache.cache: the live queue shared by append and run
    to_xmit,        \* the local working set of DataCache.run
    lock,           \* DataCache.lock: "free", "append" or "run"
    pcReader,       \* position of the reader thread: "read", "decoded", "append", "dead"
    record,         \* the record the reader is about to append
    pcRun,          \* position of DataCache.run
    retval,         \* result of the last insert_batch ("none" before any)
    net,            \* the POST in flight
    store,          \* the server's tables: tsdb (a bag of rows) and latest
    clientPassword, \* args.password of the client
    serverPassword, \* config['password'] of the server
    appended,       \* history: every record appended, in append order
    okBatches,      \* history: the batches of the successful sends, concatenated
    drained,        \* history: Len(appended) at the last drain
    lastBatch,      \* history: the batch of the last send, until a later one succeeds
    prevRetval,     \* history: retval before the send that has just returned
    lastOutcome,    \* history: how the POST that has just returned ended
    lostAcks,       \* history: POSTs the server committed and the client saw fail
    req,            \* SpecIngest: the last request body
    resp,           \* SpecIngest: the status of the last response
    before,         \* SpecIngest: the store before the last request
    gates,          \* SpecIngest: the gates the last request went through, in order
    served,         \* SpecIngest: the number of requests handled
    conn,           \* SpecServer: the one database connection and its open transaction
    handlers,       \* SpecServer: the request each worker thread is handling
    calls,          \* SpecServer history: the requests that were answered
    began,          \* SpecServer history: the number of requests begun
    env,            \* SpecBatch: what the request met (database, dbus, deadline)
    pm,             \* SpecAqi: the argument of convert_aqi
    aqi_output,     \* SpecAqi: the value convert_aqi returned
    uart,           \* SpecReader: the bytes the serial port has still to deliver
    frame,          \* SpecReader: PM25._buffer
    reading,        \* SpecReader: how the last PM25.read ended
    called,         \* history: what the send callback did at the post that has just returned
    fan_is_on,      \* SpecFan: c['fan-is-on'] of the sensor's CONFIG entry
    fanlog,         \* SpecFan history: the last notification and the calls of onoff-func
    now,            \* SpecOAuth: time.time()
    google_auth_states, \* SpecOAuth: OAuthHandler.google_auth_states
    auth_codes,     \* SpecOAuth: OAuthHandler.auth_codes
    tokens,         \* SpecOAuth: OAuthHandler.tokens
    refresh_tokens, \* SpecOAuth: OAuthHandler.refresh_tokens
    exchanges,      \* SpecOAuth: the token request each worker thread is handling
    answer,         \* SpecOAuth history: the last request answered
    minted          \* SpecOAuth history: the token pairs created, with their codes

vars == <<cache, to_xmit, lock, pcReader, record, pcRun, retval, net, store,
          clientPassword, serverPassword, appended, okBatches, drained, lastBatch,
          prevRetval, lastOutcome, lostAcks, req, resp, before, gates, served,
          conn, handlers, calls, began, env, pm, aqi_output, uart, frame, reading,
          called, fan_is_on, fanlog, now, google_auth_states, auth_codes, tokens,
          refresh_tokens, exchanges, answer, minted>>

cacheVars == <<cache, to_xmit, lock, pcReader, record, pcRun, retval>>
histVars == <<appended, okBatches, drained, lastBatch, prevRetval, lastOutcome, lostAcks>>
ingestVars == <<req, resp, before, gates, served, env>>
configVars == <<clientPassword, serverPassword>>
serverVars == <<conn, handlers, calls, began>>
unitVars == <<pm, aqi_output>>
readerVars == <<uart, frame, reading>>
fanVars == <<fan_is_on, fanlog>>
oauthVars == <<now, google_auth_states, auth_codes, tokens, refresh_tokens,
               exchanges, answer, minted>>
integrationVars == <<fanVars, oauthVars>>

----------------------------------------------------------------------------
(* Bounds of the model *)

MaxRecords == 3
MaxLostAcks == 1
MaxRequests == 2
SaltLen == 1
MaxCalls == 3
MaxPm == 520
MaxChunks == 2
MaxFanCalls == 3
MaxIssued == 6

\* the number of rows of one insert statement above which a batch is large
ChunkSize == 4

----------------------------------------------------------------------------
(* Strings, bytes and digests *)

\* Op applied to the value of e, with e evaluated once
Let(e, Op(_)) == CHOOSE y \in {Op(x) : x \in {e}} : TRUE

\* A string is a sequence of code points, a byte string a sequence of bytes.
RECURSIVE Flatten(_)
Flatten(ss) == IF ss = <<>> THEN <<>> ELSE Head(ss) \o Flatten(Tail(ss))

\* str.encode('utf-8'), for code points below 2^16
Utf8Char(c) ==
    IF c < 128 THEN <<c>>
    ELSE IF c < 2048 THEN <<192 + (c \div 64), 128 + (c % 64)>>
    ELSE <<224 + (c \div 4096), 128 + ((c \div 64) % 64), 128 + (c % 64)>>

Utf8(s) == Flatten([i \in 1..Len(s) |-> Utf8Char(s[i])])

\* hashlib.sha256(data).digest(): collision free, so a digest stands for its input
Sha256(bytes) == [sha256 |-> bytes]

\* bytes.hex(): a lower-case hexadecimal string
Hex(d) == [kind |-> "hex", upper |-> FALSE, bytes |-> d]

\* binascii.unhexlify accepts either case and raises on anything else
CanUnhexlify(s) == s.kind = "hex"
Unhexlify(s) == s.bytes

\* string.ascii_uppercase, cut down to two letters
Letters == {65, 66}

RECURSIVE SeqsOfLen(_, _)
SeqsOfLen(S, n) ==
    IF n = 0 THEN {<<>>}
    ELSE {<<x>> \o t : x \in S, t \in SeqsOfLen(S, n - 1)}

\* random.choices(string.ascii_uppercase, k=20)
Salts == SeqsOfLen(Letters, SaltLen)

\* the passwords the two sides may be configured with: "p", "q", "pé"
Passwords == {<<112>>, <<113>>, <<112, 233>>}

----------------------------------------------------------------------------
(* Times and records *)

\* datetime.datetime values and epoch-seconds floats are different types
DateTime(n) == [kind |-> "datetime", v |-> n]

\* datetime.timestamp(), applied by the client to a record's time
Timestamp(t) == [kind |-> "epoch", v |-> t.v]

\* datetime.datetime.fromtimestamp(), applied by the server
FromTimestamp(e) == [kind |-> "datetime", v |-> e.v]

\* the readings a sensor may report for every particulate field
Readings == {35}

\* the record rpi-reader appends for a decoded frame read at time n
NewRecord(n, val) ==
    [time |-> DateTime(n),
     fields |-> << <<"pm1.0", val>>, <<"pm2.5", val>>, <<"pm10.0", val>> >>]

----------------------------------------------------------------------------
(* Client: the PMS5003 frame reader, PM25.read *)

\* bytearray(32); the two header bytes 0x42 0x4D; the length field of a frame
FrameLen == 32
Sync1 == 66
Sync2 == 77
PayloadLen == 28

field_names ==
    <<"pm10_standard", "pm25_standard", "pm100_standard",
      "pm10_env", "pm25_env", "pm100_env",
      "particles_03um", "particles_05um", "particles_10um",
      "particles_25um", "particles_50um", "particles_100um">>

\* the low byte is taken first
Unpack16_Little(hi, lo) == lo * 256 + hi

\* struct.unpack(">H", two bytes)
Unpack16(hi, lo) == hi * 256 + lo

RECURSIVE Sum(_)
Sum(bytes) == IF bytes = <<>> THEN 0 ELSE Head(bytes) + Sum(Tail(bytes))

\* the checksum is not looked at
Validate_NoChecksum(buf) ==
    IF buf[1] # Sync1 \/ buf[2] # Sync2 THEN "Invalid PM2.5 header"
    ELSE IF Unpack16(buf[3], buf[4]) # PayloadLen THEN "Invalid PM2.5 frame length"
    ELSE "ok"

\* the three checks of read, in order: the error raised, or "ok"
Validate(buf) ==
    IF buf[1] # Sync1 \/ buf[2] # Sync2 THEN "Invalid PM2.5 header"
    ELSE IF Unpack16(buf[3], buf[4]) # PayloadLen THEN "Invalid PM2.5 frame length"
    ELSE IF Sum(SubSeq(buf, 1, 30)) # Unpack16(buf[31], buf[32])
    THEN "Invalid PM2.5 checksum"
    ELSE "ok"

\* aqType._asdict(aqType._make(struct.unpack(">HHHHHHHHHHHH", buffer[4:28])))
Unpack(buf) ==
    [n \in {field_names[k] : k \in 1..Len(field_names)} |->
        LET k == CHOOSE j \in 1..Len(field_names) : field_names[j] = n
        IN  Unpack16(buf[3 + 2 * k], buf[4 + 2 * k])]

NoData == [n \in {} |-> 0]

\* how a call of read ended: the measurement or the error, with the bytes the
\* port had still to deliver when it was called
Reading(ok, error, data, input) ==
    [ok |-> ok, error |-> error, data |-> data, input |-> input]
NoReading == Reading(FALSE, "none", NoData, <<>>)

\* the first byte of the stream is taken as the start of the frame
SyncAt_First(stream) == IF stream = <<>> THEN 0 ELSE 1

\* the position of the first 0x42 of the stream, 0 when there is none
SyncAt(stream) ==
    IF \E i \in 1..Len(stream) : stream[i] = Sync1
    THEN CHOOSE i \in 1..Len(stream) :
             stream[i] = Sync1 /\ \A j \in 1..(i - 1) : stream[j] # Sync1
    ELSE 0

\* PM25_UART._read_into_buffer: bytes are read one at a time until 0x42, then
\* 31 at once; a read that times out returns fewer bytes than asked for.
\* [error, buffer, rest]
read_into_buffer(stream, buf) ==
    LET i == SyncAt(stream)
    IN  IF i = 0
        THEN [error |-> "no start of frame", buffer |-> buf, rest |-> <<>>]
        ELSE IF Len(stream) - i < FrameLen - 1
        THEN [error |-> "incomplete frame",
              buffer |-> [buf EXCEPT ![1] = stream[i]], rest |-> <<>>]
        ELSE [error |-> "ok",
              buffer |-> SubSeq(stream, i, i + FrameLen - 1),
              rest |-> SubSeq(stream, i + FrameLen, Len(stream))]

\* PM25.read: [reading, buffer, rest]
read(stream, buf) ==
    LET r == read_into_buffer(stream, buf)
        v == IF r.error = "ok" THEN Validate(r.buffer) ELSE r.error
    IN  [reading |-> IF v = "ok"
                     THEN Reading(TRUE, "ok", Unpack(r.buffer), stream)
                     ELSE Reading(FALSE, v, NoData, stream),
         buffer |-> r.buffer, rest |-> r.rest]

\* a frame the sensor sends for twelve values: header, length, the values, two
\* bytes that read does not decode, checksum
Bytes16(v) == <<v \div 256, v % 256>>
WithChecksum(first30) == first30 \o Bytes16(Sum(first30) % 65536)
Reserved == <<151, 0>>
MakeFrame(values) ==
    WithChecksum(<<Sync1, Sync2>> \o Bytes16(PayloadLen)
                 \o Flatten([k \in 1..Len(values) |-> Bytes16(values[k])])
                 \o Reserved)

\* what the port may deliver: frames with small and large values, a frame with
\* its checksum off by one, with a wrong second header byte, with a length field
\* of 27 (checksum right), line noise, and a frame cut short by a timeout
GoodFrames ==
    {MakeFrame(<<1, 2, 3, 4, 5, 6, 7, 8, 9, 10, 11, 12>>),
     MakeFrame(<<291, 35, 600, 0, 65535, 256, 255, 66, 77, 1000, 4660, 43981>>)}
BadChecksum(f) == [f EXCEPT ![32] = (@ + 1) % 256]
BadHeader(f) == [f EXCEPT ![2] = 0]
BadLength(f) == WithChecksum([SubSeq(f, 1, 30) EXCEPT ![4] = PayloadLen - 1])
Noise == <<0, 77, 255>>
CutShort(f) == SubSeq(f, 1, 20)

BaseFrame == MakeFrame(<<1, 2, 3, 4, 5, 6, 7, 8, 9, 10, 11, 12>>)

Chunks ==
    GoodFrames \cup {Noise, BadChecksum(BaseFrame), BadHeader(BaseFrame),
                     BadLength(BaseFrame), CutShort(BaseFrame)}

\* the streams of at most n chunks
RECURSIVE StreamsUpTo(_)
StreamsUpTo(n) ==
    IF n = 0 THEN {<<>>}
    ELSE LET shorter == StreamsUpTo(n - 1)
         IN  shorter \cup {c \o t : c \in Chunks, t \in shorter}

\* the record main appends for a measurement read at time n
RecordOf(n, data) ==
    [time |-> DateTime(n),
     fields |-> << <<"pm1.0", data["pm10_standard"]>>,
                   <<"pm2.5", data["pm25_standard"]>>,
                   <<"pm10.0", data["pm100_standard"]>> >>]

----------------------------------------------------------------------------
(* Server: PM2.5 to AQI *)

\* EPA PM2.5 breakpoints of aqi.to_iaqi, concentrations in tenths:
\* <<bplo, bphi, aqilo, aqihi>>
EpaTable ==
    << <<0, 120, 0, 50>>, <<121, 354, 51, 100>>, <<355, 554, 101, 150>>,
       <<555, 1504, 151, 200>>, <<1505, 2504, 201, 300>>,
       <<2505, 3504, 301, 400>>, <<3505, 5004, 401, 500>> >>

\* aqi.to_iaqi(POLLUTANT_PM25, cc, algo=ALGO_EPA) for an integer cc in 0..500:
\* linear interpolation inside the breakpoint range, rounded half to even
to_iaqi(cc) ==
    LET c10 == cc * 10
        i == CHOOSE k \in 1..Len(EpaTable) :
                 EpaTable[k][1] <= c10 /\ c10 <= EpaTable[k][2]
        bp == EpaTable[i]
        num == (bp[4] - bp[3]) * (c10 - bp[1])
        den == bp[2] - bp[1]
        q == num \div den
        r == num % den
        lo == bp[3] + q
    IN  IF 2 * r < den THEN lo
        ELSE IF 2 * r > den THEN lo + 1
        ELSE IF lo % 2 = 0 THEN lo ELSE lo + 1

\* above 500 the value stays at that of 500
convert_aqi_Capped(v) == to_iaqi(IF v > 500 THEN 500 ELSE v)

\* above 500 only the excess is returned
convert_aqi_Excess(v) == IF v > 500 THEN v - 500 ELSE to_iaqi(v)

convert_aqi(v) ==
    LET aqi_input == IF v > 500 THEN 500 ELSE v
        extra == IF v > 500 THEN v - 500 ELSE 0
    IN  to_iaqi(aqi_input) + extra

\* aqi_output before and after the call
NotComputed(v) == [done |-> FALSE, v |-> v]
Computed(v) == [done |-> TRUE, v |-> v]

----------------------------------------------------------------------------
(* Server: lookup tables and insert_batch *)

\* Python's None for an id; "not sensorid" is true of None and of 0 alike
NoId == 0
NoName == "None"

\* self.sensornames and self.datatypes, loaded at startup
sensornames == [n \in {"jer-office", "garage"} |-> IF n = "jer-office" THEN 1 ELSE 2]
datatypes ==
    [n \in {"pm1.0", "pm2.5", "pm10.0", "aqi2.5"} |->
        CASE n = "pm1.0" -> 1 [] n = "pm2.5" -> 2 [] n = "pm10.0" -> 3 [] n = "aqi2.5" -> 4]

get_sensorid_by_name(name) ==
    IF name \in DOMAIN sensornames THEN sensornames[name] ELSE NoId

get_datatype_by_name(name) ==
    IF name \in DOMAIN datatypes THEN datatypes[name] ELSE NoId

HasField(fields, name) == \E i \in 1..Len(fields) : fields[i][1] = name
FieldValue(fields, name) ==
    fields[CHOOSE i \in 1..Len(fields) : fields[i][1] = name][2]

\* no aqi2.5 is derived
WithAqi_Skip(fields) == fields

\* the record's items after the derived aqi2.5 has been added
WithAqi(fields) ==
    IF HasField(fields, "pm2.5")
    THEN LET a == <<"aqi2.5", convert_aqi(FieldValue(fields, "pm2.5"))>>
         IN  IF HasField(fields, "aqi2.5")
             THEN [i \in 1..Len(fields) |->
                      IF fields[i][1] = "aqi2.5" THEN a ELSE fields[i]]
             ELSE Append(fields, a)
    ELSE fields

\* the first item with an unknown datatype ends the record
RowsOfRecord_StopAtUnknown(sensorid, rec) ==
    Let(WithAqi(rec.fields), LAMBDA items :
        LET stop == IF \E i \in 1..Len(items) : get_datatype_by_name(items[i][1]) = NoId
                    THEN CHOOSE i \in 1..Len(items) :
                             /\ get_datatype_by_name(items[i][1]) = NoId
                             /\ \A j \in 1..(i - 1) :
                                    get_datatype_by_name(items[j][1]) # NoId
                    ELSE Len(items) + 1
        IN  [i \in 1..(stop - 1) |->
                [time |-> rec.time, sensorid |-> sensorid,
                 datatype |-> get_datatype_by_name(items[i][1]),
                 value |-> items[i][2]]])

\* the rows of one record: one for every item with a known datatype, in the
\* order of the items
RowsOfRecord(sensorid, rec) ==
    Let(WithAqi(rec.fields), LAMBDA items :
        LET known == SelectSeq(items, LAMBDA f : get_datatype_by_name(f[1]) # NoId)
        IN  [i \in 1..Len(known) |->
                [time |-> rec.time, sensorid |-> sensorid,
                 datatype |-> get_datatype_by_name(known[i][1]),
                 value |-> known[i][2]]])

InsertionList(sensorid, recordlist) ==
    Let([i \in 1..Len(recordlist) |-> RowsOfRecord(sensorid, recordlist[i])], Flatten)

RECURSIVE SeqToBag(_)
SeqToBag(s) == IF s = <<>> THEN EmptyBag ELSE SetToBag({Head(s)}) (+) SeqToBag(Tail(s))

\* every row replaces the kept one of its datatype: the last row wins
LatestOf_Last(insertion_list) ==
    LET n == Len(insertion_list)
        types == {insertion_list[i].datatype : i \in 1..n}
        last(d) == CHOOSE i \in 1..n :
                       /\ insertion_list[i].datatype = d
                       /\ \A j \in 1..n : insertion_list[j].datatype = d => j <= i
    IN  [d \in types |-> insertion_list[last(d)]]

\* latest: the loop keeps, for each datatype of the batch, a row only when
\* its time is larger than the kept one's: the first row with the largest time
LatestOf(insertion_list) ==
    LET n == Len(insertion_list)
        types == {insertion_list[i].datatype : i \in 1..n}
        first(d) ==
            CHOOSE i \in 1..n :
                /\ insertion_list[i].datatype = d
                /\ \A j \in 1..n :
                       insertion_list[j].datatype = d =>
                           \/ insertion_list[j].time.v < insertion_list[i].time.v
                           \/ (insertion_list[j].time.v = insertion_list[i].time.v /\ i <= j)
    IN  [d \in types |-> insertion_list[first(d)]]

\* insert ... on conflict (sensorid, datatype) do update set time, value
Upsert(table, rows) ==
    LET keys == {<<rows[d].sensorid, d>> : d \in DOMAIN rows}
    IN  [k \in DOMAIN table \cup keys |->
            IF k \in keys
            THEN [time |-> rows[k[2]].time, value |-> rows[k[2]].value]
            ELSE table[k]]

EmptyStore == [tsdb |-> EmptyBag, latest |-> <<>>]

\* an unknown sensor is stored as the first sensor of the table
Resolve_Default(sensorname, sensorid_in) ==
    IF sensorid_in # NoId THEN sensorid_in
    ELSE IF get_sensorid_by_name(sensorname) # NoId
    THEN get_sensorid_by_name(sensorname) ELSE sensornames["jer-office"]

\* the sensor id of a call: the id passed in unless it is None or 0, else the
\* id of the name (NoId when the name is unknown)
Resolve(sensorname, sensorid_in) ==
    IF sensorid_in = NoId THEN get_sensorid_by_name(sensorname) ELSE sensorid_in

\* PMS5003Database.insert_batch: [raised, reached, store], reached being the
\* last step entered (4: sensor resolution, 5: the insert).  dbFails: the
\* database raises inside the transaction, which is then never committed.
insert_batch(st, sensorname, sensorid_in, recordlist, dbFails) ==
    LET sensorid == Resolve(sensorname, sensorid_in)
    IN  IF sensorid = NoId THEN [raised |-> TRUE, reached |-> 4, store |-> st]
        ELSE IF recordlist = <<>> THEN [raised |-> TRUE, reached |-> 4, store |-> st]
        ELSE IF dbFails THEN [raised |-> TRUE, reached |-> 5, store |-> st]
        ELSE Let(InsertionList(sensorid, recordlist), LAMBDA insertion_list :
                 Let(LatestOf(insertion_list), LAMBDA latest :
                     [raised |-> FALSE, reached |-> 5,
                      store |-> [tsdb |-> st.tsdb (+) SeqToBag(insertion_list),
                                 latest |-> Upsert(st.latest, latest)]]))

----------------------------------------------------------------------------
(* Server: SensorDataHandler.data *)

\* dict.get(key, default)
Get(msg, key, default) == IF key \in DOMAIN msg THEN msg[key] ELSE default

\* the salted-hash gate: "ok", "mismatch", or "raise" when unhexlify raises
SaltedAuth(msg, password) ==
    LET expected == Sha256(Utf8(msg["salt"]) \o Utf8(password))
    IN  IF ~CanUnhexlify(msg["auth"]) THEN "raise"
        ELSE IF expected # Unhexlify(msg["auth"]) THEN "mismatch"
        ELSE "ok"

\* the authentication gate of data: "ok", "403" or "raise"
AuthGate(msg, password) ==
    IF "salt" \in DOMAIN msg /\ "auth" \in DOMAIN msg
    THEN LET a == SaltedAuth(msg, password)
         IN  IF a = "mismatch" THEN "403" ELSE a
    ELSE IF "clowny-cleartext-password" \in DOMAIN msg
    THEN IF msg["clowny-cleartext-password"] # password THEN "403" ELSE "ok"
    ELSE "403"

\* the steps of data, in the order of the code
Gates == <<"parse", "authenticate", "convert", "resolve", "insert", "notify">>

\* the first n steps
Upto(n) == SubSeq(Gates, 1, n)

\* the outcome of a request: the status, the store, whether the transaction was
\* committed, whether dbus-send was run, and the steps that were entered
Reply(status, st, committed, notified, entered) ==
    [status |-> status, store |-> st, committed |-> committed,
     notified |-> notified, gates |-> entered]

\* for rec in sensordata: rec['time'] = datetime.datetime.fromtimestamp(rec['time'])
SensorData(msg) ==
    [i \in 1..Len(msg["sensordata"]) |->
        [msg["sensordata"][i] EXCEPT
            !.time = FromTimestamp(msg["sensordata"][i].time)]]

\* what follows the authentication gate.  An exception that leaves the handler
\* is answered with 500 by the web framework.  dbus is "off" when
\* config['dbus-notify'] is false, "ran" when dbus-send was run (whatever its
\* exit status) and "missing" when subprocess.run raises.
Accepted(msg, st, dbFails, dbus) ==
    IF "sensordata" \notin DOMAIN msg THEN Reply(500, st, FALSE, FALSE, Upto(2))
    ELSE
    LET sensorname == Get(msg, "sensorname", NoName)
        sensorid == Get(msg, "sensorid", NoId)
    IN  Let(SensorData(msg), LAMBDA recordlist :
        Let(insert_batch(st, sensorname, sensorid, recordlist, dbFails), LAMBDA r :
            IF r.raised THEN Reply(500, st, FALSE, FALSE, Upto(r.reached))
            ELSE IF dbus = "off" THEN Reply(200, r.store, TRUE, FALSE, Upto(5))
            ELSE IF dbus = "missing" THEN Reply(500, r.store, TRUE, FALSE, Upto(6))
            ELSE Reply(200, r.store, TRUE, TRUE, Upto(6))))

\* a 403 does not end the request
data_NoShortCircuit(body, st, password, dbFails, dbus) ==
    IF ~body.json THEN Reply(400, st, FALSE, FALSE, Upto(1))
    ELSE LET gate == AuthGate(body.msg, password)
             r == Accepted(body.msg, st, dbFails, dbus)
         IN  IF gate = "403" THEN Reply(403, r.store, r.committed, r.notified, r.gates)
             ELSE IF gate = "raise" THEN Reply(500, st, FALSE, FALSE, Upto(2))
             ELSE r

\* SensorDataHandler.data on a request body
data(body, st, password, dbFails, dbus) ==
    IF ~body.json THEN Reply(400, st, FALSE, FALSE, Upto(1))
    ELSE LET gate == AuthGate(body.msg, password)
         IN  IF gate = "403" THEN Reply(403, st, FALSE, FALSE, Upto(2))
             ELSE IF gate = "raise" THEN Reply(500, st, FALSE, FALSE, Upto(2))
             ELSE Accepted(body.msg, st, dbFails, dbus)

DbusOutcomes == {"off", "ran", "missing"}

\* the gate of the legacy receiver: the cleartext password is compared with the
\* encoded secret, which no string of a JSON body equals
LegacyAuthGate(msg, password) ==
    IF "salt" \in DOMAIN msg /\ "auth" \in DOMAIN msg
    THEN LET a == SaltedAuth(msg, password)
         IN  IF a = "mismatch" THEN "403" ELSE a
    ELSE "403"

\* SensorDataHandler.data of the legacy receiver: an exception of insert_batch
\* is caught and answered with 501, and the notification follows in any case.
\* The rows of the legacy table are kept cell by cell, one per column of a
\* record.
data_legacy(body, st, password, dbFails, dbus) ==
    IF ~body.json THEN Reply(400, st, FALSE, FALSE, Upto(1))
    ELSE IF LegacyAuthGate(body.msg, password) = "403"
    THEN Reply(403, st, FALSE, FALSE, Upto(2))
    ELSE IF LegacyAuthGate(body.msg, password) = "raise"
    THEN Reply(500, st, FALSE, FALSE, Upto(2))
    ELSE IF "sensorid" \notin DOMAIN body.msg \/ "sensordata" \notin DOMAIN body.msg
    THEN Reply(500, st, FALSE, FALSE, Upto(3))
    ELSE
    Let(SensorData(body.msg), LAMBDA recordlist :
        LET failed == \/ dbFails
                      \/ recordlist = <<>>
                      \/ \E i \in 1..Len(recordlist) :
                             ~HasField(recordlist[i].fields, "pm2.5")
            status == IF failed THEN 501 ELSE 200
            after == IF failed THEN st
                     ELSE [st EXCEPT !.tsdb =
                              @ (+) SeqToBag(InsertionList(body.msg["sensorid"],
                                                           recordlist))]
        IN  IF dbus = "off" THEN Reply(status, after, ~failed, FALSE, Upto(5))
            ELSE IF dbus = "missing" THEN Reply(500, after, ~failed, FALSE, Upto(6))
            ELSE Reply(status, after, ~failed, TRUE, Upto(6)))

----------------------------------------------------------------------------
(* Client: DataClient.insert_batch *)

\* args.sensor_name
SensorName == "jer-office"

\* every record is stamped with the time of the newest record of the batch
ConvertTimes_NewestTime(recordlist) ==
    [i \in 1..Len(recordlist) |->
        [recordlist[i] EXCEPT
            !.time = [kind |-> "epoch", v |-> recordlist[Len(recordlist)].time.v]]]

\* for rec in recordlist: a datetime time becomes epoch seconds, in place
ConvertTimes(recordlist) ==
    [i \in 1..Len(recordlist) |->
        IF recordlist[i].time.kind = "datetime"
        THEN [recordlist[i] EXCEPT !.time = Timestamp(recordlist[i].time)]
        ELSE recordlist[i]]

\* the secret is hashed before the salt
ClientAuth_SecretFirst(salt, password) == Hex(Sha256(Utf8(password) \o Utf8(salt)))

\* the authenticator of the payload
ClientAuth(salt, password) == Hex(Sha256(Utf8(salt) \o Utf8(password)))

\* the JSON document that is posted
Payload(recordlist, salt, password) ==
    [f \in {"sensorname", "sensordata", "salt", "auth"} |->
        CASE f = "sensorname" -> SensorName
          [] f = "sensordata" -> ConvertTimes(recordlist)
          [] f = "salt" -> salt
          [] f = "auth" -> ClientAuth(salt, password)]

\* how a POST ends for the client
Status(n) == [kind |-> "status", status |-> n]
Raised == [kind |-> "exception", status |-> 0]
NoOutcome == [kind |-> "none", status |-> 0]

\* every 2xx status counts as success
PostResult_Any2xx(outcome, cb) ==
    IF outcome.kind = "exception" THEN "False"
    ELSE IF outcome.status \div 100 = 2 THEN "True"
    ELSE "False"

\* an exception of the callback leaves insert_batch
PostResult_CallbackPropagates(outcome, cb) ==
    IF outcome.kind = "exception" THEN "False"
    ELSE IF cb = "raises" THEN "raise"
    ELSE IF outcome.status = 200 THEN "True"
    ELSE "False"

\* insert_batch after the post: "True", "False", or "raise" when an exception
\* leaves insert_batch.  cb is "none" (no callback set), "ok" or "raises".
PostResult(outcome, cb) ==
    IF outcome.kind = "exception" THEN "False"
    ELSE IF outcome.status = 200 THEN "True"
    ELSE "False"

Callbacks == {"none", "ok", "raises"}

\* statuses an intermediary (config 'is-proxy') may answer with instead of the server
ProxyStatuses == {204, 502}

\* what a request met: whether the database raised, how dbus-send ended, and
\* whether the wall-clock deadline passed while the rows were being inserted
Env(dbFails, dbus, late) ==
    [known |-> TRUE, dbFails |-> dbFails, dbus |-> dbus, late |-> late]
NoEnv == [known |-> FALSE, dbFails |-> FALSE, dbus |-> "off", late |-> FALSE]

----------------------------------------------------------------------------
(* Server: the worker threads and the database connection they share *)

\* the worker threads of the web server that run the handlers
Workers == {1, 2}

\* the connection self.db: "idle" outside a transaction, "open" inside one,
\* "aborted" after a statement failed inside one, "closed" once the connection
\* is lost; tsdb and latest are the uncommitted rows of the open transaction
NoTransaction == [state |-> "idle", tsdb |-> EmptyBag, latest |-> <<>>]
Aborted == [state |-> "aborted", tsdb |-> EmptyBag, latest |-> <<>>]
Closed == [state |-> "closed", tsdb |-> EmptyBag, latest |-> <<>>]

IdleHandler ==
    [pc |-> "idle", id |-> 0, rows |-> <<>>, clean |-> TRUE, alone |-> TRUE,
     afterRaise |-> FALSE, afterLoss |-> FALSE]

\* the rows of the latest table once a transaction's upserts are committed
Merge(table, pending) ==
    [k \in DOMAIN table \cup DOMAIN pending |->
        IF k \in DOMAIN pending THEN pending[k] ELSE table[k]]

\* how a statement sent to the database may end
StatementOutcomes == {"ok", "dberror"}

\* the n-th request: good credentials, one record read at time n, for a sensor
\* that is or is not in the sensors table
Request(n, name, password) ==
    [json |-> TRUE,
     msg |-> [f \in {"salt", "auth", "sensorname", "sensordata"} |->
                CASE f = "salt" -> <<65>>
                  [] f = "auth" -> ClientAuth(<<65>>, password)
                  [] f = "sensorname" -> name
                  [] OTHER -> ConvertTimes(<<NewRecord(n, 35)>>)]]

----------------------------------------------------------------------------
(* Integration: the fan controller, AQIChangeHandler *)

\* CONFIG: the entries, by 'sensorname', with 'on-thresh' and 'off-thresh' in
\* hundredths
Entry(on_thresh, off_thresh) == [on_thresh |-> on_thresh * 100, off_thresh |-> off_thresh * 100]
SensorNames == {"jer-office", "jer-bedroom", "gracie-bedroom"}
CONFIG ==
    [s \in SensorNames |->
        IF s = "gracie-bedroom" THEN Entry(35, 10) ELSE Entry(40, 15)]

\* what the last notification did: its sensorname, the average it read (in
\* hundredths, if the query returned one), the recorded state of the entry before
\* it, the call it made ("none", "on", "off") and how that call ended ("none",
\* "ok", "raises"); and for every entry, calls: every value passed to its
\* onoff-func; completed: the last value its onoff-func returned normally for
FanLog(sensorname, aqi, was_on, made, ended, fancalls, completed) ==
    [sensor |-> sensorname, aqi |-> aqi, was_on |-> was_on, made |-> made,
     ended |-> ended, calls |-> fancalls, completed |-> completed]
NoFanLog ==
    FanLog("none", [has |-> FALSE, v |-> 0], FALSE, "none", "none",
           [s \in SensorNames |-> <<>>], [s \in SensorNames |-> "none"])

\* the fan follows the level of the average, whatever its recorded state
maybe_on_off_Level(c, is_on, aqi) ==
    IF aqi >= c.on_thresh THEN "on"
    ELSE IF aqi <= c.off_thresh THEN "off"
    ELSE "none"

\* maybe_on_off: the call of change_fan_state it makes for the entry c, the
\* average aqi (round(avg, 2), in hundredths) and the recorded state
maybe_on_off(c, is_on, aqi) ==
    IF is_on
    THEN IF aqi <= c.off_thresh THEN "off" ELSE "none"
    ELSE IF aqi >= c.on_thresh THEN "on" ELSE "none"

IdleExchange == [pc |-> "idle", code |-> 0, expires |-> 0, refresh_token |-> 0]

\* a request answered: the endpoint, the HTTP status, the error of the body
Answer(op, status, error, arg, stale) ==
    [op |-> op, status |-> status, error |-> error, arg |-> arg, stale |-> stale]
NoAnswer == Answer("none", 0, "none", 0, FALSE)

----------------------------------------------------------------------------
(* The pipeline: reader thread, flush thread, network, server *)

Idle == [stage |-> "idle", by |-> "none", body |-> <<>>, outcome |-> Raised,
         committed |-> FALSE]

\* a lock that never blocks
CanAcquire_Always(l) == TRUE

\* threading.Lock: acquire blocks while another thread holds the lock
CanAcquire(l) == l = "free"

\* the working set is dropped whatever the result
Remaining_Dropped(r, xmit) == <<>>

\* the working set is kept whatever the result
Remaining_Kept(r, xmit) == xmit

\* run: if retval: to_xmit.clear()
Remaining(r, xmit) == IF r = "True" THEN <<>> ELSE xmit

\* the state after construction, the serial port apart
Constructed ==
    /\ cache = <<>>
    /\ to_xmit = <<>>
    /\ lock = "free"
    /\ pcReader = "read"
    /\ record = NewRecord(0, 35)
    /\ pcRun = "lock"
    /\ retval = "none"
    /\ net = Idle
    /\ store = EmptyStore
    /\ clientPassword \in Passwords
    /\ serverPassword \in Passwords
    /\ appended = <<>>
    /\ okBatches = <<>>
    /\ drained = 0
    /\ lastBatch = <<>>
    /\ prevRetval = "none"
    /\ lastOutcome = NoOutcome
    /\ lostAcks = 0
    /\ req = [json |-> FALSE]
    /\ resp = 0
    /\ before = EmptyStore
    /\ gates = <<>>
    /\ served = 0
    /\ conn = NoTransaction
    /\ handlers = [t \in Workers |-> IdleHandler]
    /\ calls = <<>>
    /\ began = 0
    /\ env = NoEnv
    /\ pm = 0
    /\ aqi_output = NotComputed(0)
    /\ frame = [i \in 1..FrameLen |-> 0]
    /\ reading = NoReading
    /\ called = "none"
    /\ fan_is_on = [s \in SensorNames |-> FALSE]
    /\ fanlog = NoFanLog
    /\ now = 0
    /\ google_auth_states = {}
    /\ auth_codes = {}
    /\ tokens = {}
    /\ refresh_tokens = {}
    /\ exchanges = [t \in Workers |-> IdleExchange]
    /\ answer = NoAnswer
    /\ minted = {}

Init == Constructed /\ uart = <<>>

\* the reader has decoded a frame, stamps it and enters DataCache.append
ReaderLock ==
    /\ pcReader = "read"
    /\ Len(appended) < MaxRecords
    /\ CanAcquire(lock)
    /\ \E val \in Readings : record' = NewRecord(Len(appended) + 1, val)
    /\ lock' = "append"
    /\ pcReader' = "append"
    /\ UNCHANGED <<cache, to_xmit, pcRun, retval, net, store>>
    /\ UNCHANGED <<configVars, histVars, ingestVars, serverVars, unitVars, readerVars, called, integrationVars>>

\* self.cache.append(record), leaving the with block
AppendStore ==
    /\ pcReader = "append"
    /\ cache' = Append(cache, record)
    /\ appended' = Append(appended, record)
    /\ lock' = "free"
    /\ pcReader' = "read"
    /\ UNCHANGED <<to_xmit, record, pcRun, retval, net, store>>
    /\ UNCHANGED <<configVars, okBatches, drained, lastBatch, prevRetval, lastOutcome, lostAcks, ingestVars, serverVars, unitVars, readerVars, called, integrationVars>>

\* run: with self.lock
RunLock ==
    /\ pcRun = "lock"
    /\ CanAcquire(lock)
    /\ lock' = "run"
    /\ pcRun' = "extend"
    /\ UNCHANGED <<cache, to_xmit, pcReader, record, retval, net, store>>
    /\ UNCHANGED <<configVars, histVars, ingestVars, serverVars, unitVars, readerVars, called, integrationVars>>

\* the working set is replaced by the live queue instead of extended
RunExtend_Replace ==
    /\ pcRun = "extend"
    /\ to_xmit' = cache
    /\ pcRun' = "clear"
    /\ UNCHANGED <<cache, lock, pcReader, record, retval, net, store>>
    /\ UNCHANGED <<configVars, histVars, ingestVars, serverVars, unitVars, readerVars, called, integrationVars>>

\* run: to_xmit.extend(self.cache)
RunExtend ==
    /\ pcRun = "extend"
    /\ to_xmit' = to_xmit \o cache
    /\ pcRun' = "clear"
    /\ UNCHANGED <<cache, lock, pcReader, record, retval, net, store>>
    /\ UNCHANGED <<configVars, histVars, ingestVars, serverVars, unitVars, readerVars, called, integrationVars>>

\* the lock is kept past the with block, over the send
RunClear_KeepLock ==
    /\ pcRun = "clear"
    /\ cache' = <<>>
    /\ drained' = Len(appended)
    /\ pcRun' = "check"
    /\ UNCHANGED <<to_xmit, lock, pcReader, record, retval, net, store>>
    /\ UNCHANGED <<configVars, appended, okBatches, lastBatch, prevRetval, lastOutcome, lostAcks, ingestVars, serverVars, unitVars, readerVars, called, integrationVars>>

\* run: self.cache.clear(), leaving the with block
RunClear ==
    /\ pcRun = "clear"
    /\ cache' = <<>>
    /\ lock' = "free"
    /\ drained' = Len(appended)
    /\ pcRun' = "check"
    /\ UNCHANGED <<to_xmit, pcReader, record, retval, net, store>>
    /\ UNCHANGED <<configVars, appended, okBatches, lastBatch, prevRetval, lastOutcome, lostAcks, ingestVars, serverVars, unitVars, readerVars, called, integrationVars>>

\* the working set is sent whether or not it holds a record
RunCheck_SendAlways ==
    /\ pcRun = "check"
    /\ to_xmit' = ConvertTimes(to_xmit)
    /\ \E salt \in Salts :
         net' = [stage |-> "request",
                 by |-> "none",
                 body |-> [json |-> TRUE,
                           msg |-> Payload(to_xmit, salt, clientPassword)],
                 outcome |-> Raised,
                 committed |-> FALSE]
    /\ pcRun' = "post"
    /\ UNCHANGED <<cache, lock, pcReader, record, retval, store>>
    /\ UNCHANGED <<configVars, histVars, ingestVars, serverVars, unitVars, readerVars, called, integrationVars>>

\* run: if len(to_xmit) > 0, enter insert_batch up to the post
RunCheck ==
    /\ pcRun = "check"
    /\ IF Len(to_xmit) > 0
       THEN /\ to_xmit' = ConvertTimes(to_xmit)
            /\ \E salt \in Salts :
                 net' = [stage |-> "request",
                         by |-> "none",
                         body |-> [json |-> TRUE,
                                   msg |-> Payload(to_xmit, salt, clientPassword)],
                         outcome |-> Raised,
                         committed |-> FALSE]
            /\ pcRun' = "post"
       ELSE /\ pcRun' = "sleep"
            /\ UNCHANGED <<to_xmit, net>>
    /\ UNCHANGED <<cache, lock, pcReader, record, retval, store>>
    /\ UNCHANGED <<configVars, histVars, ingestVars, serverVars, unitVars, readerVars, called, integrationVars>>

\* the request reaches the server and data handles it
ServerHandle ==
    /\ net.stage = "request"
    /\ \E dbFails \in BOOLEAN, dbus \in DbusOutcomes :
       \E r \in {data(net.body, store, serverPassword, dbFails, dbus)} :
             /\ (r.committed /\ r.status # 200) => lostAcks < MaxLostAcks
             /\ store' = r.store
             /\ net' = [net EXCEPT !.stage = "response",
                                   !.by = "server",
                                   !.outcome = Status(r.status),
                                   !.committed = r.committed]
    /\ UNCHANGED <<cacheVars, configVars, histVars, ingestVars, serverVars, unitVars, readerVars, called, integrationVars>>

\* an intermediary answers instead of the server
ProxyRespond ==
    /\ net.stage = "request"
    /\ \E n \in ProxyStatuses :
         net' = [net EXCEPT !.stage = "response", !.by = "proxy",
                            !.outcome = Status(n)]
    /\ UNCHANGED <<cacheVars, store, configVars, histVars, ingestVars, serverVars, unitVars, readerVars, called, integrationVars>>

\* run after insert_batch has returned: if retval: to_xmit.clear()
AfterSend(outcome, cb) ==
    LET r == PostResult(outcome, cb)
        batch == net.body.msg["sensordata"]
    IN  /\ lastOutcome' = outcome
        /\ called' = IF outcome.kind = "exception" THEN "none" ELSE cb
        /\ IF r = "raise"
           THEN /\ pcRun' = "dead"
                /\ UNCHANGED <<retval, to_xmit, okBatches, lastBatch, prevRetval, lostAcks>>
           ELSE /\ pcRun' = "sleep"
                /\ retval' = r
                /\ to_xmit' = Remaining(r, to_xmit)
                /\ okBatches' = IF r = "True" THEN okBatches \o batch ELSE okBatches
                /\ lastBatch' = batch
                /\ prevRetval' = retval
                /\ lostAcks' = IF r # "True" /\ net.committed
                               THEN lostAcks + 1 ELSE lostAcks
        /\ net' = Idle
        /\ UNCHANGED <<cache, lock, pcReader, record, store>>
        /\ UNCHANGED <<configVars, appended, drained, ingestVars, serverVars, unitVars, readerVars, integrationVars>>

\* session.post raises: connection failure, or no response within the timeout
PostRaises ==
    /\ net.stage \in {"request", "response"}
    /\ net.committed => lostAcks < MaxLostAcks
    /\ \E cb \in Callbacks : AfterSend(Raised, cb)

\* session.post returns the response
PostReturns ==
    /\ net.stage = "response"
    /\ \E cb \in Callbacks : AfterSend(net.outcome, cb)

\* run: time.sleep(15); what the history keeps of the returned send ends here
Sleep ==
    /\ pcRun = "sleep"
    /\ pcRun' = "lock"
    /\ lastOutcome' = NoOutcome
    /\ called' = "none"
    /\ prevRetval' = "none"
    /\ lastBatch' = IF retval = "True" THEN <<>> ELSE lastBatch
    /\ UNCHANGED <<cache, to_xmit, lock, pcReader, record, retval, net, store>>
    /\ UNCHANGED <<configVars, appended, okBatches, drained, lostAcks, ingestVars, serverVars, unitVars, readerVars, integrationVars>>

Reader == ReaderLock \/ AppendStore
Run == RunLock \/ RunExtend \/ RunClear \/ RunCheck \/ Sleep
Post == ServerHandle \/ ProxyRespond \/ PostRaises \/ PostReturns

Next == Reader \/ Run \/ Post

Spec == Init /\ [][Next]_vars

\* the scheduling of the threads: a thread that can take a step is not stopped
\* for ever (the reader may stop reading), a post ends (timeout=30), and a
\* transport that can succeed again and again does succeed
ServerOK == ServerHandle /\ net'.outcome = Status(200)
ReturnOK == PostReturns /\ retval' = "True"

\* a client configured with the server's secret
InitLive == Init /\ clientPassword = serverPassword

SpecLive ==
    /\ InitLive /\ [][Next]_vars
    /\ WF_vars(Run \/ AppendStore \/ Post)
    /\ SF_vars(ServerOK) /\ SF_vars(ReturnOK)

----------------------------------------------------------------------------
(* The server alone, with requests of any shape *)

\* a string that is not hexadecimal
NotHex == [kind |-> "text", upper |-> FALSE, bytes |-> Sha256(<<>>)]

\* the same hexadecimal string in upper case
Upper(h) == [h EXCEPT !.upper = TRUE]

OtherPassword(password) == CHOOSE p \in Passwords : p # password

\* the values a request may give each field; a field may be left out
Absent(v) == [has |-> FALSE, v |-> v]
Present(v) == [has |-> TRUE, v |-> v]

SaltValues == {Absent(<<>>), Present(<<65>>)}
AuthValues(password) ==
    {Absent(NotHex), Present(NotHex),
     Present(ClientAuth(<<65>>, password)),
     Present(Upper(ClientAuth(<<65>>, password))),
     Present(ClientAuth(<<65>>, OtherPassword(password)))}
CleartextValues(password) ==
    {Absent(<<>>), Present(password), Present(OtherPassword(password))}
NameValues == {Present("jer-office"), Present("nowhere")}
DataValues ==
    {ConvertTimes(<<NewRecord(1, 35)>>),
     ConvertTimes(<<NewRecord(1, 35), NewRecord(2, 35)>>)}

\* a name that is left out, and numeric sensor ids: none, the id of "garage",
\* and an id that is not in the sensors table
SensorNameValues == NameValues \cup {Absent(NoName)}
SensorIdValues == {Absent(NoId), Present(sensornames["garage"]), Present(9)}

\* batches whose records arrive newest first, or carry a newer time alone
OrderValues ==
    {ConvertTimes(<<NewRecord(2, 12)>>),
     ConvertTimes(<<NewRecord(2, 12), NewRecord(1, 35)>>)}

\* the JSON object with the fields that are not left out
Message(salt, auth, cleartext, name, sensorid, sensordata) ==
    LET present == {f \in {"salt", "auth", "clowny-cleartext-password",
                           "sensorname", "sensorid"} :
                       CASE f = "salt" -> salt.has
                         [] f = "auth" -> auth.has
                         [] f = "sensorname" -> name.has
                         [] f = "sensorid" -> sensorid.has
                         [] OTHER -> cleartext.has}
    IN  [f \in present \cup {"sensordata"} |->
            CASE f = "salt" -> salt.v
              [] f = "auth" -> auth.v
              [] f = "clowny-cleartext-password" -> cleartext.v
              [] f = "sensorname" -> name.v
              [] f = "sensorid" -> sensorid.v
              [] OTHER -> sensordata]

Malformed == [json |-> FALSE]

\* a body cut off in the middle: the text of msg, which json.loads rejects
Truncated(msg) == [json |-> FALSE, msg |-> msg]

\* requests that differ in their credentials
AuthBodies(password) ==
    {[json |-> TRUE,
      msg |-> Message(salt, auth, cleartext, Present("jer-office"), Absent(NoId),
                      ConvertTimes(<<NewRecord(1, 35)>>))] :
        salt \in SaltValues, auth \in AuthValues(password),
        cleartext \in CleartextValues(password)}

\* requests with good credentials that differ in the sensor they name and in
\* their records
SensorBodies(password) ==
    {[json |-> TRUE,
      msg |-> Message(Present(<<65>>), Present(ClientAuth(<<65>>, password)),
                      Absent(<<>>), name, sensorid, sensordata)] :
        name \in SensorNameValues, sensorid \in SensorIdValues,
        sensordata \in DataValues \cup OrderValues}

Bodies(password) ==
    {Malformed} \cup AuthBodies(password) \cup SensorBodies(password)
    \cup {Truncated(b.msg) : b \in {c \in AuthBodies(password) :
                                        "clowny-cleartext-password" \notin DOMAIN c.msg}}

InitIngest == Init /\ clientPassword = serverPassword

\* one request, handled by SensorDataHandler.data
HandleRequest ==
    /\ served < MaxRequests
    /\ \E body \in Bodies(serverPassword), dbFails \in BOOLEAN, dbus \in DbusOutcomes :
       \E r \in {data(body, store, serverPassword, dbFails, dbus)} :
           /\ req' = body
           /\ resp' = r.status
           /\ before' = store
           /\ gates' = r.gates
           /\ store' = r.store
    /\ served' = served + 1
    /\ env' = env
    /\ UNCHANGED <<cacheVars, net, configVars, histVars, serverVars, unitVars, readerVars, called, integrationVars>>

NextIngest == HandleRequest

SpecIngest == InitIngest /\ [][NextIngest]_vars

----------------------------------------------------------------------------
(* One batch under known conditions, after earlier batches *)

\* the items of a record: a field the datatypes table does not know before one
\* it knows, no known field at all, no pm2.5, and an aqi2.5 sent by the client
\* with a field unknown to the table after it
FieldsValues ==
    {<< <<"humidity", 40>>, <<"pm2.5", 35>> >>,
     << <<"humidity", 40>>, <<"co2", 400>> >>,
     << <<"pm1.0", 7>> >>,
     << <<"aqi2.5", 1>>, <<"pm2.5", 510>>, <<"voc", 3>> >>}

FieldRecord(n, fields) == [time |-> Timestamp(DateTime(n)), fields |-> fields]

FieldData ==
    {<<FieldRecord(1, f)>> : f \in FieldsValues}
    \cup {<<FieldRecord(1, f), FieldRecord(2, g)>> : f \in FieldsValues, g \in FieldsValues}

\* a request with good credentials
GoodBody(password, name, sensorid, sensordata) ==
    [json |-> TRUE,
     msg |-> Message(Present(<<65>>), Present(ClientAuth(<<65>>, password)),
                     Absent(<<>>), name, sensorid, sensordata)]

BatchBodies(password) ==
    SensorBodies(password)
    \cup {GoodBody(password, Present("jer-office"), Absent(NoId), d) : d \in FieldData}

InitBatch == InitIngest /\ serverPassword = <<112>>

\* an earlier request of the same sensor, served without any fault
EarlierBatch ==
    /\ served < MaxRequests
    /\ ~env.known
    /\ \E sensordata \in DataValues :
       \E r \in {data(GoodBody(serverPassword, Present("jer-office"), Absent(NoId),
                               sensordata),
                      store, serverPassword, FALSE, "off")} :
           /\ req' = GoodBody(serverPassword, Present("jer-office"), Absent(NoId),
                               sensordata)
           /\ resp' = r.status
           /\ before' = store
           /\ gates' = r.gates
           /\ store' = r.store
    /\ served' = served + 1
    /\ env' = env
    /\ UNCHANGED <<cacheVars, net, configVars, histVars, serverVars, unitVars, readerVars, called, integrationVars>>

\* one request handled by SensorDataHandler.data, with what its surroundings
\* did: whether the database raised, what became of dbus-send, and whether
\* the insert took longer than any time limit
HandleBatch ==
    /\ ~env.known
    /\ \E body \in BatchBodies(serverPassword), dbFails \in BOOLEAN,
          dbus \in DbusOutcomes, late \in BOOLEAN :
       \E r \in {data(body, store, serverPassword, dbFails, dbus)} :
           /\ req' = body
           /\ resp' = r.status
           /\ before' = store
           /\ gates' = r.gates
           /\ store' = r.store
           /\ env' = Env(dbFails, dbus, late)
    /\ served' = served + 1
    /\ UNCHANGED <<cacheVars, net, configVars, histVars, serverVars, unitVars, readerVars, called, integrationVars>>

NextBatch == EarlierBatch \/ HandleBatch

SpecBatch == InitBatch /\ [][NextBatch]_vars

----------------------------------------------------------------------------
(* The OAuth handler of the Google Home integration *)

\* the lifetimes, in seconds, of a state of the Google flow, of an
\* authorization code and of an access token
StateTtl == 600
CodeTtl == 600
TokenTtl == 3600

\* secrets.token_urlsafe: a value never issued before; minted holds every value
\* issued so far with its kind ("state", "code", "access", "refresh") and, for
\* the tokens of an authorization-code exchange, the code they were created for;
\* a refresh token that was returned to the client is held once more, with the
\* kind "returned"
Generated == {m \in minted : m.kind # "returned"}
Fresh == Cardinality(Generated) + 1
Issued(kind, id, code) == [kind |-> kind, id |-> id, code |-> code]
IssuedIds(kind) == {m.id : m \in {x \in minted : x.kind = kind}}
Room(n) == Cardinality(Generated) + n <= MaxIssued

\* the entries of the dictionaries, by their key
Expiring(id, expires) == [id |-> id, expires |-> expires]
AccessToken(id, refresh_token, expires) ==
    [id |-> id, refresh_token |-> refresh_token, expires |-> expires]
RefreshToken(id, access_token) == [id |-> id, access_token |-> access_token]
Keys(dict) == {e.id : e \in dict}
Lookup(dict, key) == CHOOSE e \in dict : e.id = key

\* _cleanup_expired_auth_codes
cleanup_expired_auth_codes(codes, t) == {c \in codes : ~(c.expires < t)}

\* _cleanup_expired_tokens: every expired access token goes, and with it the
\* refresh token it names
cleanup_expired_tokens(toks, refreshes, t) ==
    [tokens |-> {a \in toks : ~(a.expires < t)},
     refresh_tokens |->
        {r \in refreshes :
            r.id \notin {a.refresh_token : a \in {x \in toks : x.expires < t}}}]

InitOAuth == Init /\ clientPassword = <<112>> /\ serverPassword = <<112>>

\* the instants of the requests, in seconds after the start: just after a
\* state or a code of the start has expired, just after an access token of the
\* start has expired, and after both
Instants == {StateTtl + 1, TokenTtl + 1, TokenTtl + StateTtl + 2}

\* time passes
Tick ==
    /\ \E t \in Instants :
        /\ t > now
        /\ now' = t
    /\ UNCHANGED <<cacheVars, net, store, configVars, histVars, ingestVars, serverVars,
                   unitVars, readerVars, called, fanVars, google_auth_states,
                   auth_codes, tokens, refresh_tokens, exchanges, answer, minted>>

\* auth: a state of the Google flow is stored for ten minutes
Auth ==
    /\ Room(1)
    /\ google_auth_states' = google_auth_states \cup {Expiring(Fresh, now + StateTtl)}
    /\ minted' = minted \cup {Issued("state", Fresh, 0)}
    /\ answer' = Answer("auth", 303, "none", Fresh, FALSE)
    /\ UNCHANGED <<cacheVars, net, store, configVars, histVars, ingestVars, serverVars,
                   unitVars, readerVars, called, fanVars, now, auth_codes, tokens,
                   refresh_tokens, exchanges>>

\* callback, with a code of Google and a state, issued before or never (0):
\* the state is looked up, the expired states are dropped, the state is
\* deleted, Google is asked for the identity and an authorization code is
\* stored for ten minutes
Callback ==
    /\ \E state \in IssuedIds("state") \cup {0}, google \in {"ok", "fails"} :
        IF state \notin Keys(google_auth_states)
        THEN /\ answer' = Answer("callback", 400, "Invalid or expired state", state, TRUE)
             /\ UNCHANGED <<google_auth_states, auth_codes, minted>>
        ELSE \E kept \in {{g \in google_auth_states : g.expires > now}} :
             IF state \notin Keys(kept)
             THEN \* del self.google_auth_states[state] raises KeyError
                  /\ google_auth_states' = kept
                  /\ answer' = Answer("callback", 500, "KeyError", state, TRUE)
                  /\ UNCHANGED <<auth_codes, minted>>
             ELSE /\ google_auth_states' = {g \in kept : g.id # state}
                  /\ IF google = "fails"
                     THEN /\ answer' = Answer("callback", 500, "Authentication error",
                                               state, FALSE)
                          /\ UNCHANGED <<auth_codes, minted>>
                     ELSE /\ Room(1)
                          /\ auth_codes' =
                                 cleanup_expired_auth_codes(auth_codes, now)
                                     \cup {Expiring(Fresh, now + CodeTtl)}
                          /\ minted' = minted \cup {Issued("code", Fresh, 0)}
                          /\ answer' = Answer("callback", 303, "none", state, FALSE)
    /\ UNCHANGED <<cacheVars, net, store, configVars, histVars, ingestVars, serverVars,
                   unitVars, readerVars, called, fanVars, now, tokens, refresh_tokens,
                   exchanges>>

\* token with grant_type authorization_code, in the thread t: the code,
\* issued before or never (0), is looked up and its expiry is checked
TokenLookup(t) ==
    /\ exchanges[t].pc = "idle"
    /\ \E code \in IssuedIds("code") \cup {0} :
        IF code \notin Keys(auth_codes)
        THEN /\ answer' = Answer("token", 400, "invalid_grant", code, FALSE)
             /\ UNCHANGED <<auth_codes, exchanges>>
        ELSE IF now > Lookup(auth_codes, code).expires
        THEN /\ auth_codes' = {c \in auth_codes : c.id # code}
             /\ answer' = Answer("token", 400, "invalid_grant", code, TRUE)
             /\ UNCHANGED exchanges
        ELSE /\ exchanges' = [exchanges EXCEPT
                                 ![t] = [pc |-> "found", code |-> code,
                                         expires |-> Lookup(auth_codes, code).expires,
                                         refresh_token |-> 0]]
             /\ UNCHANGED <<auth_codes, answer>>
    /\ UNCHANGED <<cacheVars, net, store, configVars, histVars, ingestVars, serverVars,
                   unitVars, readerVars, called, fanVars, now, google_auth_states,
                   tokens, refresh_tokens, minted>>

\* the thread t generates an access token and a refresh token and stores both
TokenCreate(t) ==
    /\ exchanges[t].pc = "found"
    /\ Room(2)
    /\ tokens' = tokens \cup {AccessToken(Fresh, Fresh + 1, now + TokenTtl)}
    /\ refresh_tokens' = refresh_tokens \cup {RefreshToken(Fresh + 1, Fresh)}
    /\ minted' = minted \cup {Issued("access", Fresh, exchanges[t].code),
                               Issued("refresh", Fresh + 1, exchanges[t].code)}
    /\ exchanges' = [exchanges EXCEPT ![t].pc = "created",
                                      ![t].refresh_token = Fresh + 1]
    /\ UNCHANGED <<cacheVars, net, store, configVars, histVars, ingestVars, serverVars,
                   unitVars, readerVars, called, fanVars, now, google_auth_states,
                   auth_codes, answer>>

\* the thread t deletes the code and returns the tokens; del raises KeyError
\* for a code that is no longer there
TokenDelete(t) ==
    /\ exchanges[t].pc = "created"
    /\ IF exchanges[t].code \in Keys(auth_codes)
       THEN /\ auth_codes' = {c \in auth_codes : c.id # exchanges[t].code}
            /\ minted' = minted \cup {Issued("returned", exchanges[t].refresh_token,
                                              exchanges[t].code)}
            /\ answer' = Answer("token", 200, "none", exchanges[t].code, FALSE)
       ELSE /\ answer' = Answer("token", 500, "KeyError", exchanges[t].code, FALSE)
            /\ UNCHANGED <<auth_codes, minted>>
    /\ exchanges' = [exchanges EXCEPT ![t] = IdleExchange]
    /\ UNCHANGED <<cacheVars, net, store, configVars, histVars, ingestVars, serverVars,
                   unitVars, readerVars, called, fanVars, now, google_auth_states,
                   tokens, refresh_tokens>>

\* token with grant_type refresh_token, with a refresh token returned before or
\* never issued (0): the token is looked up, the expired access tokens are cleaned up,
\* the old access token is deleted, a new one is stored, and the entry of the
\* refresh token is pointed at it; the assignment raises KeyError when the
\* clean-up has deleted that entry
TokenRefresh ==
    /\ \E refresh_token \in IssuedIds("returned") \cup {0} :
        IF refresh_token \notin Keys(refresh_tokens)
        THEN /\ answer' = Answer("refresh", 400, "invalid_grant", refresh_token, FALSE)
             /\ UNCHANGED <<tokens, refresh_tokens, minted>>
        ELSE \E cleaned \in {cleanup_expired_tokens(tokens, refresh_tokens, now)} :
             /\ Room(1)
             /\ tokens' =
                    {a \in cleaned.tokens :
                        a.id # Lookup(refresh_tokens, refresh_token).access_token}
                        \cup {AccessToken(Fresh, refresh_token, now + TokenTtl)}
             /\ minted' = minted \cup {Issued("access", Fresh, 0)}
             /\ IF refresh_token \in Keys(cleaned.refresh_tokens)
                THEN /\ refresh_tokens' =
                            {r \in cleaned.refresh_tokens : r.id # refresh_token}
                                \cup {RefreshToken(refresh_token, Fresh)}
                     /\ answer' = Answer("refresh", 200, "none", refresh_token, FALSE)
                ELSE /\ refresh_tokens' = cleaned.refresh_tokens
                     /\ answer' = Answer("refresh", 500, "KeyError", refresh_token, TRUE)
    /\ UNCHANGED <<cacheVars, net, store, configVars, histVars, ingestVars, serverVars,
                   unitVars, readerVars, called, fanVars, now, google_auth_states,
                   auth_codes, exchanges>>

\* verify_access_token, of a request of the smart home API: an expired token
\* is popped
VerifyAccessToken ==
    /\ \E token \in IssuedIds("access") :
        IF token \notin Keys(tokens)
        THEN /\ answer' = Answer("verify", 401, "none", token, FALSE)
             /\ UNCHANGED tokens
        ELSE IF now > Lookup(tokens, token).expires
        THEN /\ tokens' = {a \in tokens : a.id # token}
             /\ answer' = Answer("verify", 401, "none", token, TRUE)
        ELSE /\ answer' = Answer("verify", 200, "none", token, FALSE)
             /\ UNCHANGED tokens
    /\ UNCHANGED <<cacheVars, net, store, configVars, histVars, ingestVars, serverVars,
                   unitVars, readerVars, called, fanVars, now, google_auth_states,
                   auth_codes, refresh_tokens, exchanges, minted>>

NextOAuth ==
    \/ Tick
    \/ Auth
    \/ Callback
    \/ \E t \in Workers : TokenLookup(t)
    \/ \E t \in Workers : TokenCreate(t)
    \/ \E t \in Workers : TokenDelete(t)
    \/ TokenRefresh
    \/ VerifyAccessToken

SpecOAuth == InitOAuth /\ [][NextOAuth]_vars

----------------------------------------------------------------------------
(* The fan controller, notified of new data of its sensor *)

\* what get_oneminute_average returns, in hundredths: no row in the last
\* minute (None), or an average below, at, between and above the thresholds
AverageValues ==
    {Absent(0)} \cup
    {Present(a) : a \in {999, 1000, 1499, 1500, 1501, 2750, 3499, 3500, 3999, 4000}}

InitFan == Init /\ clientPassword = <<112>> /\ serverPassword = <<112>>

\* NewDataAvailable: for the entry of the sensorname, if there is one,
\* maybe_on_off, and in it change_fan_state, which records the new state and
\* then calls onoff-func. round(None, 2) raises before anything is decided.
NewDataAvailable ==
    \E sensorname \in SensorNames \cup {"other"}, avg \in AverageValues,
       ended \in {"ok", "raises"} :
        IF sensorname \notin SensorNames
        THEN /\ fanlog' = FanLog(sensorname, Absent(0), FALSE, "none", "none",
                                 fanlog.calls, fanlog.completed)
             /\ UNCHANGED <<cacheVars, net, store, configVars, histVars, ingestVars,
                            serverVars, unitVars, readerVars, called, fan_is_on,
                            oauthVars>>
        ELSE /\ Len(fanlog.calls[sensorname]) < MaxFanCalls
             /\ \E made \in {IF avg.has
                               THEN maybe_on_off(CONFIG[sensorname],
                                                 fan_is_on[sensorname], avg.v)
                               ELSE "none"} :
                 /\ fan_is_on' =
                        IF made = "none" THEN fan_is_on
                        ELSE [fan_is_on EXCEPT ![sensorname] = (made = "on")]
                 /\ fanlog' =
                        FanLog(sensorname, avg, fan_is_on[sensorname], made,
                               IF made = "none" THEN "none" ELSE ended,
                               IF made = "none" THEN fanlog.calls
                               ELSE [fanlog.calls EXCEPT
                                        ![sensorname] = Append(@, made = "on")],
                               IF made # "none" /\ ended = "ok"
                               THEN [fanlog.completed EXCEPT ![sensorname] = made]
                               ELSE fanlog.completed)
             /\ UNCHANGED <<cacheVars, net, store, configVars, histVars, ingestVars,
                            serverVars, unitVars, readerVars, called, oauthVars>>

NextFan == NewDataAvailable

SpecFan == InitFan /\ [][NextFan]_vars

----------------------------------------------------------------------------
(* The legacy receiver, with requests of any shape *)

InitLegacy == InitIngest /\ serverPassword = <<112>>

\* one request handled by the legacy SensorDataHandler.data
HandleLegacy ==
    /\ ~env.known
    /\ \E body \in Bodies(serverPassword), dbFails \in BOOLEAN, dbus \in DbusOutcomes :
       \E r \in {data_legacy(body, store, serverPassword, dbFails, dbus)} :
           /\ req' = body
           /\ resp' = r.status
           /\ before' = store
           /\ gates' = r.gates
           /\ store' = r.store
           /\ env' = Env(dbFails, dbus, FALSE)
    /\ served' = served + 1
    /\ UNCHANGED <<cacheVars, net, configVars, histVars, serverVars, unitVars, readerVars, called, integrationVars>>

NextLegacy == HandleLegacy

SpecLegacy == InitLegacy /\ [][NextLegacy]_vars

----------------------------------------------------------------------------
(* The server with its worker threads: every handler runs insert_batch      *)
(* statement by statement on the one connection of the PMS5003Database      *)

InitServer == Init /\ clientPassword = serverPassword /\ serverPassword = <<112>>

InFlight(t) == handlers[t].pc # "idle"

\* the handler of thread t returns or raises: the request is answered
Answered(t, h, status, raised) ==
    /\ handlers' = [handlers EXCEPT ![t] = IdleHandler]
    /\ calls' = Append(calls, [id |-> h.id, rows |-> h.rows, status |-> status,
                               raised |-> raised,
                               lost |-> raised /\ conn.state = "closed",
                               clean |-> h.clean,
                               alone |-> h.alone, afterRaise |-> h.afterRaise,
                               afterLoss |-> h.afterLoss])

\* data up to the first statement of insert_batch: the body is parsed and
\* authenticated, the times are converted, the sensor is resolved and the rows
\* are built; a request that fails before the database is answered at once
Begin(t) ==
    /\ ~InFlight(t)
    /\ began < MaxCalls
    /\ began' = began + 1
    /\ \E name \in {"jer-office", "nowhere"} :
       \E body \in {Request(began + 1, name, serverPassword)} :
       \E r \in {data(body, EmptyStore, serverPassword, TRUE, "off")} :
       \E h \in {[pc |-> "rollback", id |-> began + 1,
                   rows |-> InsertionList(
                                Resolve(Get(body.msg, "sensorname", NoName),
                                        Get(body.msg, "sensorid", NoId)),
                                SensorData(body.msg)),
                   clean |-> TRUE,
                   alone |-> \A u \in Workers : ~InFlight(u),
                   afterRaise |-> \E i \in 1..Len(calls) : calls[i].raised,
                   afterLoss |-> conn.state = "closed"]} :
           IF Len(r.gates) < 5
           THEN /\ calls' = Append(calls, [id |-> h.id, rows |-> <<>>,
                                           status |-> r.status,
                                           raised |-> Len(r.gates) = 4,
                                           lost |-> FALSE,
                                           clean |-> TRUE, alone |-> h.alone,
                                           afterRaise |-> h.afterRaise,
                                           afterLoss |-> h.afterLoss])
                /\ handlers' = [u \in Workers |->
                                   IF InFlight(u) THEN [handlers[u] EXCEPT !.alone = FALSE]
                                   ELSE handlers[u]]
           ELSE /\ handlers' = [u \in Workers |->
                                   IF u = t THEN h
                                   ELSE IF InFlight(u)
                                   THEN [handlers[u] EXCEPT !.alone = FALSE]
                                   ELSE handlers[u]]
                /\ UNCHANGED calls
    /\ UNCHANGED <<conn, store>>
    /\ UNCHANGED <<cacheVars, net, configVars, histVars, ingestVars, unitVars, readerVars, called, integrationVars>>

\* self.db.rollback() at the head of the database part of insert_batch:
\* whatever the connection's transaction held is discarded
OpeningRollback(t) ==
    /\ handlers[t].pc = "rollback"
    /\ IF conn.state = "closed"
       THEN /\ Answered(t, handlers[t], 500, TRUE)
            /\ UNCHANGED <<conn, store>>
       ELSE /\ conn' = NoTransaction
            /\ handlers' = [handlers EXCEPT ![t].pc = "insert"]
            /\ UNCHANGED <<calls, store>>
    /\ UNCHANGED began
    /\ UNCHANGED <<cacheVars, net, configVars, histVars, ingestVars, unitVars, readerVars, called, integrationVars>>

\* a statement of thread t on the shared connection: it raises on a closed
\* connection and inside an aborted transaction; otherwise the database runs
\* it, leaving the connection as done, or fails it and aborts the transaction
Statement(t, pc, next, done) ==
    /\ handlers[t].pc = pc
    /\ IF conn.state \in {"closed", "aborted"}
       THEN /\ Answered(t, handlers[t], 500, TRUE)
            /\ UNCHANGED conn
       ELSE \E outcome \in StatementOutcomes :
                IF outcome = "ok"
                THEN /\ conn' = done
                     /\ handlers' = [handlers EXCEPT ![t].pc = next]
                     /\ UNCHANGED calls
                ELSE /\ conn' = Aborted
                     /\ Answered(t, [handlers[t] EXCEPT !.clean = FALSE], 500, TRUE)
    /\ UNCHANGED <<store, began>>
    /\ UNCHANGED <<cacheVars, net, configVars, histVars, ingestVars, unitVars, readerVars, called, integrationVars>>

\* execute_values: insert into sensordatav4_tsdb
InsertTsdb(t) ==
    Statement(t, "insert", "upsert",
              [conn EXCEPT !.state = "open",
                           !.tsdb = @ (+) SeqToBag(handlers[t].rows)])

\* execute_values: insert into sensordatav4_latest ... on conflict do update
UpsertLatest(t) ==
    Statement(t, "upsert", "commit",
              [conn EXCEPT !.state = "open",
                           !.latest = Upsert(@, LatestOf(handlers[t].rows))])

\* self.db.commit(): whatever the connection's transaction holds is committed;
\* the commit of an aborted transaction rolls it back and does not raise
Commit(t) ==
    /\ handlers[t].pc = "commit"
    /\ IF conn.state = "closed"
       THEN /\ Answered(t, handlers[t], 500, TRUE)
            /\ UNCHANGED <<conn, store>>
       ELSE /\ store' = IF conn.state = "aborted" THEN store
                        ELSE [tsdb |-> store.tsdb (+) conn.tsdb,
                              latest |-> Merge(store.latest, conn.latest)]
            /\ conn' = NoTransaction
            /\ handlers' = [handlers EXCEPT ![t].pc = "notify"]
            /\ UNCHANGED calls
    /\ UNCHANGED began
    /\ UNCHANGED <<cacheVars, net, configVars, histVars, ingestVars, unitVars, readerVars, called, integrationVars>>

\* back in data: the dbus notification, then the response
Notify(t) ==
    /\ handlers[t].pc = "notify"
    /\ \E dbus \in DbusOutcomes :
           IF dbus = "missing"
           THEN Answered(t, [handlers[t] EXCEPT !.clean = FALSE], 500, FALSE)
           ELSE Answered(t, handlers[t], 200, FALSE)
    /\ UNCHANGED <<conn, store, began>>
    /\ UNCHANGED <<cacheVars, net, configVars, histVars, ingestVars, unitVars, readerVars, called, integrationVars>>

\* SensorDataHandler.mac_lookup on another thread: a select, then
\* db.rollback(); the select raises on a closed connection and inside an
\* aborted transaction, and the rollback is then not reached
MacLookup ==
    /\ \E t \in Workers : ~InFlight(t)
    /\ conn' = IF conn.state \in {"closed", "aborted"} THEN conn ELSE NoTransaction
    /\ handlers' = [u \in Workers |->
                       IF InFlight(u) THEN [handlers[u] EXCEPT !.alone = FALSE]
                       ELSE handlers[u]]
    /\ UNCHANGED <<store, calls, began>>
    /\ UNCHANGED <<cacheVars, net, configVars, histVars, ingestVars, unitVars, readerVars, called, integrationVars>>

\* the database server restarts or the network drops the session: the
\* connection object stays in self.db, unusable; nothing reopens it
ConnectionLost ==
    /\ conn.state # "closed"
    /\ conn' = Closed
    /\ handlers' = [u \in Workers |->
                       IF InFlight(u) THEN [handlers[u] EXCEPT !.clean = FALSE]
                       ELSE handlers[u]]
    /\ UNCHANGED <<store, calls, began>>
    /\ UNCHANGED <<cacheVars, net, configVars, histVars, ingestVars, unitVars, readerVars, called, integrationVars>>

Handler(t) ==
    \/ Begin(t) \/ OpeningRollback(t) \/ InsertTsdb(t) \/ UpsertLatest(t)
    \/ Commit(t) \/ Notify(t)

NextServer == (\E t \in Workers : Handler(t)) \/ MacLookup \/ ConnectionLost

SpecServer == InitServer /\ [][NextServer]_vars

----------------------------------------------------------------------------
(* The edge process: main reads frames from the serial port and appends     *)
(* records; the DataCache thread is a daemon thread of the same process     *)

InitReader ==
    /\ Constructed
    /\ clientPassword = <<112>> /\ serverPassword = <<112>>
    /\ uart \in StreamsUpTo(MaxChunks)

\* the main thread has not ended: when it ends by an exception the process
\* exits, and the daemon thread with it
Alive == pcReader # "dead"

\* data = pm25.read(): a measurement, or an exception that nothing in main
\* catches. uart holds the bytes the port delivers before it falls silent for
\* the timeout of the serial port
ReadFrame ==
    /\ pcReader = "read"
    /\ \E r \in {read(uart, frame)} :
           /\ uart' = r.rest
           /\ frame' = r.buffer
           /\ reading' = r.reading
           /\ IF r.reading.ok
              THEN /\ record' = RecordOf(Len(appended) + 1, r.reading.data)
                   /\ pcReader' = "decoded"
              ELSE /\ pcReader' = "dead"
                   /\ UNCHANGED record
    /\ UNCHANGED <<cache, to_xmit, lock, pcRun, retval, net, store>>
    /\ UNCHANGED <<configVars, histVars, ingestVars, serverVars, unitVars,
                   called, integrationVars>>

\* cache.append(...): with self.lock
AppendLock ==
    /\ pcReader = "decoded"
    /\ CanAcquire(lock)
    /\ lock' = "append"
    /\ pcReader' = "append"
    /\ UNCHANGED <<cache, to_xmit, record, pcRun, retval, net, store>>
    /\ UNCHANGED <<configVars, histVars, ingestVars, serverVars, unitVars, readerVars, called, integrationVars>>

NextReader ==
    \/ ReadFrame
    \/ AppendLock
    \/ (Alive /\ AppendStore)
    \/ (Alive /\ Run)
    \/ (Alive /\ Post)

SpecReader == InitReader /\ [][NextReader]_vars

----------------------------------------------------------------------------
(* The edge process of the arduino reader: main reads lines of the device   *)
(* and appends records; the DataCache thread is a daemon thread             *)

\* read_forever returns at the end of the input, or json.loads raises: main
\* ends, and the process exits without waiting for the daemon thread
EndOfInput ==
    /\ pcReader = "read"
    /\ pcReader' = "dead"
    /\ UNCHANGED <<cache, to_xmit, lock, record, pcRun, retval, net, store>>
    /\ UNCHANGED <<configVars, histVars, ingestVars, serverVars, unitVars, readerVars, called, integrationVars>>

NextArduino ==
    \/ Reader
    \/ EndOfInput
    \/ (Alive /\ Run)
    \/ (Alive /\ Post)

\* the threads of a running process are scheduled as in SpecLive
SpecArduino ==
    /\ InitLive /\ [][NextArduino]_vars
    /\ WF_vars(Alive /\ (Run \/ AppendStore \/ Post))
    /\ SF_vars(Alive /\ ServerOK) /\ SF_vars(Alive /\ ReturnOK)

----------------------------------------------------------------------------
(* convert_aqi on its own *)

InitAqi == Init /\ clientPassword = serverPassword /\ serverPassword = <<112>>

\* a PM2.5 concentration, as the sensor reports it: a whole number
NextInput ==
    /\ aqi_output.done
    /\ pm' \in 0..MaxPm
    /\ aqi_output' = NotComputed(0)
    /\ UNCHANGED <<cacheVars, net, store, configVars, histVars, ingestVars,
                   serverVars, readerVars, called, integrationVars>>

\* record['aqi2.5'] = convert_aqi(record['pm2.5'])
Convert ==
    /\ ~aqi_output.done
    /\ aqi_output' = Computed(convert_aqi(pm))
    /\ UNCHANGED <<pm, cacheVars, net, store, configVars, histVars, ingestVars,
                   serverVars, readerVars, called, integrationVars>>

NextAqi == NextInput \/ Convert

SpecAqi == InitAqi /\ [][NextAqi]_vars

----------------------------------------------------------------------------
(* Properties of the pipeline *)

\* the batch of the POST in flight
Batch == net.body.msg["sensordata"]

\* the records of the log from position m to n, as they go on the wire
Logged(m, n) == ConvertTimes(SubSeq(appended, m, n))

Delivered(i) == \E k \in 1..Len(okBatches) : okBatches[k].time.v = i

\* C1: the batches of the successful sends are, concatenated, a prefix of the
\* log of appended records (every record once, in append order), and a send that
\* succeeds carries every record appended before its drain that no earlier
\* successful send carried.
C1_SuccessCarriesAllPending ==
    /\ Len(okBatches) <= Len(appended)
    /\ okBatches = Logged(1, Len(okBatches))
    /\ (pcRun = "sleep" /\ retval = "True") => Len(okBatches) = drained

\* a send succeeded after a failed one, with several records
C1_Witness ==
    /\ pcRun = "sleep" /\ retval = "True" /\ prevRetval = "False"
    /\ lastOutcome = Status(200)
    /\ Len(lastBatch) >= 2

\* C2: whenever the flush thread is outside its critical section, the working
\* set followed by the live queue is the log of appended records without those
\* of the successful sends, in append order and without duplicates.
C2_PendingIsWorkingSetThenQueue ==
    lock # "run" =>
        /\ Len(okBatches) <= Len(appended)
        /\ ConvertTimes(to_xmit \o cache) = Logged(Len(okBatches) + 1, Len(appended))
        /\ \A i, j \in 1..Len(to_xmit \o cache) :
               i # j => (to_xmit \o cache)[i].time.v # (to_xmit \o cache)[j].time.v

\* a record was appended right after a drain that moved others to the working set
C2_Witness ==
    /\ pcRun = "check" /\ lock = "free"
    /\ Len(to_xmit) >= 1 /\ Len(cache) >= 1

\* C3: a send that fails leaves the working set and the live queue as they
\* are, and the batch of the next send is the failed batch followed by the
\* records appended between the two drains.
C3_FailedBatchRetriedVerbatim ==
    /\ [][(pcRun = "post" /\ pcRun' = "sleep" /\ retval' = "False")
            => (to_xmit' = to_xmit /\ cache' = cache)]_vars
    /\ [](pcRun = "post" /\ retval = "False" =>
            /\ Len(okBatches) + Len(lastBatch) <= drained
            /\ drained <= Len(appended)
            /\ Batch = lastBatch \o Logged(Len(okBatches) + Len(lastBatch) + 1, drained))

\* a retry that carries the failed batch and a record appended since
C3_Witness ==
    /\ pcRun = "post" /\ retval = "False"
    /\ lastBatch # <<>>
    /\ Len(Batch) > Len(lastBatch)

\* C4: under SpecLive (the flush loop keeps being scheduled, the transport
\* succeeds again and again) every appended record is eventually in the batch
\* of a successful send.
C4_EveryRecordDelivered ==
    \A i \in 1..MaxRecords : (Len(appended) >= i) ~> Delivered(i)

\* every record was delivered, the last send after a failed one
C4_Witness ==
    /\ Len(appended) >= 2
    /\ \A i \in 1..Len(appended) : Delivered(i)
    /\ prevRetval = "False" /\ retval = "True"

\* C5: while a send is outstanding the flush thread does not hold the lock, and
\* the reader can take the lock and complete its append.
C5_LockFreeDuringSend ==
    pcRun = "post" =>
        /\ lock # "run"
        /\ (pcReader = "read" /\ Len(appended) < MaxRecords) => ENABLED ReaderLock
        /\ pcReader = "append" => ENABLED AppendStore

\* the reader holds the lock while the request is outstanding
C5_Witness ==
    /\ pcRun = "post" /\ net.stage = "request"
    /\ lock = "append" /\ pcReader = "append"

AtMostOnce == \A row \in BagToSet(store.tsdb) : CopiesIn(row, store.tsdb) <= 1

\* C6 as stated: whatever the send outcomes, no row is stored twice.
C6_NeverDuplicated == AtMostOnce

\* C6, amended: as long as the client has seen no failure for a POST that the
\* server committed, no row is stored twice.
C6_NoDuplicateWithoutLostAck == lostAcks = 0 => AtMostOnce

\* rows were stored by a send that succeeded after a failed one, no ack lost
C6_Witness ==
    /\ lostAcks = 0
    /\ prevRetval = "False" /\ retval = "True"
    /\ BagCardinality(store.tsdb) >= 8

\* C7: insert_batch returns True exactly when the post ended with status 200,
\* and no exception leaves it.
C7_TrueIffStatus200 ==
    /\ pcRun # "dead"
    /\ lastOutcome # NoOutcome => (retval = "True" <=> lastOutcome = Status(200))

\* a post that ended with another 2xx status was a failure
C7_Witness ==
    /\ retval = "False"
    /\ lastOutcome = Status(204)

\* C9: the server answers the client's payload with 403 exactly when the two
\* sides are configured with different secrets.
C9_AuthRoundTrip ==
    (net.stage = "response" /\ net.by = "server") =>
        (net.outcome.status = 403 <=> clientPassword # serverPassword)

\* a payload signed with a non-ASCII secret passed the gate of the same secret
C9_Witness ==
    /\ net.stage = "response" /\ net.by = "server"
    /\ clientPassword = serverPassword /\ Len(clientPassword) = 2
    /\ net.outcome.status = 200

----------------------------------------------------------------------------
(* Properties of the server's authentication gate *)

HasSalted(msg) == "salt" \in DOMAIN msg /\ "auth" \in DOMAIN msg
HasCleartext(msg) == "clowny-cleartext-password" \in DOMAIN msg

\* auth is the hexadecimal sha256 digest of the salt followed by the secret
Verifies(msg, password) ==
    /\ HasSalted(msg)
    /\ msg["auth"].kind = "hex"
    /\ msg["auth"].bytes = Sha256(Utf8(msg["salt"]) \o Utf8(password))

CleartextMatches(msg, password) ==
    HasCleartext(msg) /\ msg["clowny-cleartext-password"] = password

\* C8 as stated: a request with salt and auth whose auth is not the digest is
\* answered with 403 and leaves the store as it was.
C8_BadDigestGets403 ==
    (served > 0 /\ req.json /\ HasSalted(req.msg)
                /\ ~Verifies(req.msg, serverPassword))
        => (resp = 403 /\ store = before)

\* C10 as stated: a request is answered with 403 only if neither scheme
\* matches; one whose cleartext password matches is accepted whatever its salt
\* and auth, one whose salt and auth verify is accepted whatever its cleartext
\* field, and one that carries neither scheme gets 403.
C10_EitherSchemeAccepted ==
    (served > 0 /\ req.json) =>
        /\ CleartextMatches(req.msg, serverPassword) => resp # 403
        /\ Verifies(req.msg, serverPassword) => resp # 403
        /\ (~HasSalted(req.msg) /\ ~HasCleartext(req.msg)) => resp = 403

----------------------------------------------------------------------------
(* Properties of the request handler *)

IsPrefix(s, t) == Len(s) <= Len(t) /\ s = SubSeq(t, 1, Len(s))

\* C11: the steps a request goes through are an initial part of parse,
\* authenticate, convert, resolve, insert, notify; a body that is not JSON is
\* answered with 400 whatever credentials its text holds; and a request
\* answered with 400 or 403 stopped at parse or authenticate: nothing was
\* converted, inserted or notified and the store is as it was.
C11_GatesShortCircuitInOrder ==
    served > 0 =>
        /\ gates # <<>> /\ IsPrefix(gates, Gates)
        /\ ~req.json => (resp = 400 /\ gates = <<"parse">>)
        /\ resp = 400 => ~req.json
        /\ resp = 403 => gates = <<"parse", "authenticate">>
        /\ resp \in {400, 403} => store = before

C11_Witness ==
    /\ served > 0 /\ ~req.json /\ "msg" \in DOMAIN req
    /\ Verifies(req.msg, serverPassword)
    /\ resp = 400 /\ store = before

----------------------------------------------------------------------------
(* Properties of the latest table *)

\* the key of a time-series row in the latest table
KeyOf(row) == <<row.sensorid, row.datatype>>

\* the time-series rows the last request added
NewRows == BagToSet(store.tsdb (-) before.tsdb)

\* the last request committed a batch
Stored == served > 0 /\ resp = 200 /\ NewRows # {}

\* C12 as stated: the latest row of a (sensor, datatype) has the largest time of
\* the points stored for it, in whatever order the points arrived.
C12_LatestIsNewest ==
    \A k \in DOMAIN store.latest :
        \A row \in BagToSet(store.tsdb) :
            KeyOf(row) = k => row.time.v <= store.latest[k].time.v

\* C13: a committed batch upserts, for every datatype among its rows, the row
\* of that datatype with the largest time (its time and its value), whatever
\* the order of the records, and leaves every other latest row as it was.
C13_LatestOfBatchIsItsNewestRow ==
    Stored =>
        /\ \A row \in NewRows :
               /\ KeyOf(row) \in DOMAIN store.latest
               /\ row.time.v <= store.latest[KeyOf(row)].time.v
        /\ \A k \in DOMAIN store.latest :
               IF \E row \in NewRows : KeyOf(row) = k
               THEN \E row \in NewRows :
                        /\ KeyOf(row) = k
                        /\ store.latest[k] = [time |-> row.time, value |-> row.value]
               ELSE k \in DOMAIN before.latest /\ store.latest[k] = before.latest[k]

\* a batch whose newer record comes first: both pm2.5 and aqi2.5 are
\* timestamped with the newer time
C13_Witness ==
    /\ Stored
    /\ req.msg["sensordata"] = ConvertTimes(<<NewRecord(2, 12), NewRecord(1, 35)>>)
    /\ \A d \in {datatypes["pm2.5"], datatypes["aqi2.5"]} :
           \E k \in DOMAIN store.latest :
               k[2] = d /\ store.latest[k] \in {[time |-> DateTime(2), value |-> 12],
                                                 [time |-> DateTime(2), value |-> convert_aqi(12)]}

----------------------------------------------------------------------------
(* Properties of the transactions on the shared connection *)

\* the time-series rows of a call are all committed, with a latest row for each
Persisted(rows) ==
    \A k \in 1..Len(rows) :
        /\ CopiesIn(rows[k], store.tsdb) > 0
        /\ KeyOf(rows[k]) \in DOMAIN store.latest

\* none of the time-series rows of a call is committed
NothingPersisted(rows) ==
    \A k \in 1..Len(rows) : CopiesIn(rows[k], store.tsdb) = 0

\* a request with records for a known sensor that ran while no other request
\* was being handled and met no fault of its own (no failing statement, no
\* loss of the connection while it ran, no failing dbus-send)
Undisturbed(c) == c.rows # <<>> /\ c.alone /\ c.clean

\* C14 as stated: with handlers running concurrently on the one connection,
\* a call that is answered with 200 has all its rows committed, and the rows
\* of a call are committed all together or not at all.
C14_CallsAreIsolated ==
    \A i \in 1..Len(calls) :
        /\ calls[i].status = 200 => Persisted(calls[i].rows)
        /\ Persisted(calls[i].rows) \/ NothingPersisted(calls[i].rows)

\* C15 as stated: a call in which a step of insert_batch raised has none of
\* its rows committed, by itself or by the commit of another call.
C15_RaisedCallCommitsNothing ==
    \A i \in 1..Len(calls) :
        calls[i].raised => NothingPersisted(calls[i].rows)

\* the connection was not lost before call i began, unless an earlier call
\* raised on the lost connection
NoLossUnmet(i) ==
    calls[i].afterLoss => \E j \in 1..(i - 1) : calls[j].lost

\* C16 as stated: a well-formed, authenticated request handled after a request
\* whose insert_batch raised (nothing else having gone wrong since) is answered
\* with 200 and its rows are persisted.
C16_ServesAfterFailedBatch ==
    \A i \in 1..Len(calls) :
        (calls[i].afterRaise /\ Undisturbed(calls[i]) /\ NoLossUnmet(i))
            => (calls[i].status = 200 /\ Persisted(calls[i].rows))

\* C17 as stated: after the connection was lost, the server opens a new one on
\* the next use, so that a request begun after the loss succeeds.
C17_ReopensLostConnection ==
    \A i \in 1..Len(calls) :
        (calls[i].afterLoss /\ Undisturbed(calls[i])) => calls[i].status = 200

----------------------------------------------------------------------------
(* Properties of sensor resolution *)

\* the ids of a lookup table
Ids(table) == {table[n] : n \in DOMAIN table}

\* the last request was authenticated
Authenticated == served > 0 /\ req.json /\ Verifies(req.msg, serverPassword)

\* C18 as stated: the rows of a request that carries a sensorname are stored
\* under the id the sensors table gives for that name, whether or not the
\* request also carries a sensorid.
C18_NamePreferredOverId ==
    (Stored /\ "sensorname" \in DOMAIN req.msg) =>
        \A row \in NewRows : row.sensorid = get_sensorid_by_name(req.msg["sensorname"])

\* C19: an authenticated request with no sensorid whose sensorname is missing
\* or not in the sensors table is answered with a 5xx status and leaves both
\* tables as they were.
C19_UnknownSensorRejected ==
    (Authenticated
        /\ "sensorid" \notin DOMAIN req.msg
        /\ get_sensorid_by_name(Get(req.msg, "sensorname", NoName)) = NoId)
        => (resp >= 500 /\ resp < 600 /\ store = before)

C19_Witness ==
    /\ Authenticated
    /\ "sensorid" \notin DOMAIN req.msg
    /\ "sensorname" \in DOMAIN req.msg /\ req.msg["sensorname"] = "nowhere"
    /\ resp = 500 /\ gates = Upto(4) /\ store = before
    /\ before # EmptyStore

\* C20 as stated: every row of the time-series table and of the latest table
\* has a sensorid of the sensors table and a datatype of the datatypes table.
C20_RowsUseKnownIds ==
    /\ \A row \in BagToSet(store.tsdb) :
           row.sensorid \in Ids(sensornames) /\ row.datatype \in Ids(datatypes)
    /\ \A k \in DOMAIN store.latest :
           k[1] \in Ids(sensornames) /\ k[2] \in Ids(datatypes)

----------------------------------------------------------------------------
(* Properties of convert_aqi *)

Min(a, b) == IF a <= b THEN a ELSE b
Max(a, b) == IF a >= b THEN a ELSE b

\* C23: convert_aqi(pm) is the EPA index of min(pm, 500) plus max(pm - 500, 0):
\* the table value up to 500, and convert_aqi(500) + k for pm = 500 + k.
C23_TableThenLinear ==
    aqi_output.done =>
        /\ aqi_output.v = to_iaqi(Min(pm, 500)) + Max(pm - 500, 0)
        /\ pm <= 500 => aqi_output.v = to_iaqi(pm)
        /\ pm > 500 => aqi_output.v = convert_aqi(500) + (pm - 500)

C23_Witness == aqi_output.done /\ pm = 510 /\ aqi_output.v = 510

\* C24: convert_aqi never decreases when pm grows, the step from 500 to 501
\* included.
C24_Monotone ==
    aqi_output.done => \A q \in 0..pm : convert_aqi(q) <= aqi_output.v

C24_Witness ==
    /\ aqi_output.done /\ pm = 501 /\ aqi_output.v = 501
    /\ convert_aqi(500) = 500 /\ convert_aqi(35) = 99

----------------------------------------------------------------------------
(* Properties of the frame reader *)

\* a read has found 0x42 in the stream it was given, with 31 bytes after it
Filled ==
    \E i \in 1..Len(reading.input) :
        reading.input[i] = Sync1 /\ Len(reading.input) - i >= 31

\* the frame in the buffer has the header 0x42 0x4D, the length 28 and the
\* checksum of its first 30 bytes
WellFormed ==
    /\ frame[1] = 66 /\ frame[2] = 77
    /\ frame[3] * 256 + frame[4] = 28
    /\ frame[31] * 256 + frame[32] = Sum(SubSeq(frame, 1, 30)) % 65536

\* C27: read on a valid 32-byte frame succeeds and returns the twelve
\* big-endian 16-bit values of bytes 4..27 under the field names in their
\* declared order.
C27_ValidFrameDecodes ==
    (Filled /\ WellFormed) =>
        /\ reading.ok
        /\ Len(field_names) = 12
        /\ field_names[1] = "pm10_standard"
        /\ field_names[12] = "particles_100um"
        /\ DOMAIN reading.data = {field_names[k] : k \in 1..12}
        /\ \A k \in 1..12 :
               reading.data[field_names[k]]
                   = frame[3 + 2 * k] * 256 + frame[4 + 2 * k]

C27_Witness ==
    /\ Filled /\ WellFormed /\ reading.ok
    /\ reading.data["pm10_standard"] = 291
    /\ reading.data["pm25_standard"] = 35
    /\ reading.data["particles_100um"] = 43981

\* C28: read on a frame with a wrong checksum, a wrong second header byte or a
\* length other than 28 fails with an error and returns no field at all, and
\* main appends no record for that frame.
C28_InvalidFrameYieldsNothing ==
    (Filled /\ ~WellFormed) =>
        /\ ~reading.ok
        /\ reading.error \in {"Invalid PM2.5 header",
                               "Invalid PM2.5 frame length",
                               "Invalid PM2.5 checksum"}
        /\ reading.data = NoData
        /\ pcReader \notin {"decoded", "append"}

C28_Witness ==
    /\ Filled
    /\ frame = BadChecksum(BaseFrame)
    /\ reading.error = "Invalid PM2.5 checksum"
    /\ reading.data = NoData

\* C29: read discards the bytes before the first 0x42 and takes exactly the 31
\* bytes after it; with no 0x42 before the port falls silent, or fewer than 31
\* bytes after it, read fails; a frame that fails validation is not read again
\* and no further byte is consumed for it.
C29_ScanThenExactly31 ==
    LET s == reading.input
    IN  reading.error # "none" =>
          /\ (\A j \in 1..Len(s) : s[j] # 66) =>
                 /\ ~reading.ok
                 /\ reading.error = "no start of frame"
                 /\ uart = <<>>
          /\ \A i \in 1..Len(s) :
                 (s[i] = 66 /\ \A j \in 1..(i - 1) : s[j] # 66) =>
                     IF Len(s) - i < 31
                     THEN /\ ~reading.ok
                          /\ reading.error = "incomplete frame"
                     ELSE /\ frame = SubSeq(s, i, i + 31)
                          /\ uart = SubSeq(s, i + 32, Len(s))
                          /\ reading.ok = WellFormed

C29_Witness ==
    /\ reading.ok
    /\ SubSeq(reading.input, 1, 3) = Noise
    /\ frame = BaseFrame
    /\ uart = <<>>

\* C30: after read fails on one frame the read loop and the flush loop keep
\* running.
C30_SurvivesBadFrame ==
    reading.error \in {"Invalid PM2.5 header", "Invalid PM2.5 frame length",
                       "Invalid PM2.5 checksum", "incomplete frame"}
        => Alive

----------------------------------------------------------------------------
(* Properties of the rows of a batch *)

\* the records of the last request as they were sent, and the sensor id its
\* rows are stored under
Sent == req.msg["sensordata"]
Sid ==
    IF Get(req.msg, "sensorid", NoId) # NoId THEN req.msg["sensorid"]
    ELSE get_sensorid_by_name(Get(req.msg, "sensorname", NoName))

\* the field names of a record, and those that become rows: the names the
\* datatypes table knows, aqi2.5 among them when the record has pm2.5
Names(rec) == {rec.fields[i][1] : i \in 1..Len(rec.fields)}
KnownNames(rec) ==
    (Names(rec) \cup (IF "pm2.5" \in Names(rec) THEN {"aqi2.5"} ELSE {}))
        \cap DOMAIN datatypes
UnknownNames(rec) == Names(rec) \ DOMAIN datatypes

\* the row a record is to give for one of its known names
RowFor(rec, name) ==
    [time |-> FromTimestamp(rec.time),
     sensorid |-> Sid,
     datatype |-> datatypes[name],
     value |-> IF name = "aqi2.5" /\ "pm2.5" \in Names(rec)
               THEN convert_aqi(FieldValue(rec.fields, "pm2.5"))
               ELSE FieldValue(rec.fields, name)]

RECURSIVE RowsFor(_)
RowsFor(recs) ==
    IF recs = <<>> THEN EmptyBag
    ELSE SetToBag({RowFor(Head(recs), n) : n \in KnownNames(Head(recs))})
             (+) RowsFor(Tail(recs))

RECURSIVE PairCount(_)
PairCount(recs) ==
    IF recs = <<>> THEN 0
    ELSE Cardinality(KnownNames(Head(recs))) + PairCount(Tail(recs))

\* the rows the last request added to the time-series table, with their
\* multiplicities
Added == store.tsdb (-) before.tsdb

\* the last request met no fault of the database or of dbus-send, named a
\* sensor that resolves and carried records
Sound ==
    /\ env.known /\ ~env.dbFails /\ env.dbus # "missing"
    /\ Sid # NoId /\ Sent # <<>>

\* C21: a field whose name the datatypes table does not know is dropped and
\* does not fail the batch: the rows of all known fields of the same record and
\* of the other records are persisted and the status is 200, also when the
\* batch has no known field at all.
C21_UnknownFieldDropped ==
    (Sound /\ \E i \in 1..Len(Sent) : UnknownNames(Sent[i]) # {}) =>
        /\ resp = 200
        /\ \A i \in 1..Len(Sent) : \A n \in KnownNames(Sent[i]) :
               BagIn(RowFor(Sent[i], n), Added)
        /\ \A row \in BagToSet(Added) : row.datatype \in Ids(datatypes)
        /\ (\A i \in 1..Len(Sent) : KnownNames(Sent[i]) = {}) =>
               store.tsdb = before.tsdb

C21_Witness ==
    /\ Sound /\ resp = 200
    /\ before # EmptyStore
    /\ Sent = <<FieldRecord(1, << <<"humidity", 40>>, <<"pm2.5", 35>> >>),
                FieldRecord(2, << <<"humidity", 40>>, <<"co2", 400>> >>)>>
    /\ BagCardinality(Added) = 2

\* C22: an accepted batch adds one time-series row for every pair of a record
\* and a known field name of it, the derived aqi2.5 counted once for a record
\* with pm2.5: the row of the record's time, the resolved sensor id, the
\* datatype id and the value; and no other row.
C22_OneRowPerKnownField ==
    (env.known /\ resp = 200) =>
        /\ BagCardinality(Added) = PairCount(Sent)
        /\ Added = RowsFor(Sent)

C22_Witness ==
    /\ env.known /\ resp = 200
    /\ before # EmptyStore
    /\ Sent = <<FieldRecord(1, << <<"aqi2.5", 1>>, <<"pm2.5", 510>>, <<"voc", 3>> >>),
                FieldRecord(2, << <<"pm1.0", 7>> >>)>>
    /\ BagCardinality(Added) = 3
    /\ BagIn([time |-> DateTime(1), sensorid |-> 1, datatype |-> 4, value |-> 510],
             Added)

\* C25: a request whose batch was committed is answered with 200 also when
\* dbus-send could not be started.
C25_NotifyFailureHarmless ==
    (env.known /\ env.dbus = "missing" /\ Added # EmptyBag) => resp = 200

\* C26: of a batch of more than ChunkSize rows whose insertion outlasts the
\* deadline, the rows after the chunk in progress are not inserted.
C26_TailDroppedAfterDeadline ==
    (env.known /\ env.late /\ resp = 200 /\ PairCount(Sent) > ChunkSize) =>
        BagCardinality(Added) < PairCount(Sent)

----------------------------------------------------------------------------
(* Properties of the times, the callback and the batches of the client *)

\* C31: the time a record carries on the wire is the time it was given when it
\* was appended, in epoch seconds, on the first send and on every retry; the
\* working set keeps that time after a failed send.
C31_TimeIsAppendTime ==
    /\ net.stage # "idle" =>
           /\ Len(okBatches) + Len(Batch) <= Len(appended)
           /\ \A i \in 1..Len(Batch) :
                  /\ Batch[i].time.kind = "epoch"
                  /\ Batch[i].time.v = appended[Len(okBatches) + i].time.v
    /\ (lock # "run" /\ pcRun # "post") =>
           \A i \in 1..Len(to_xmit) :
               to_xmit[i].time.v = appended[Len(okBatches) + i].time.v

\* a retry of two records, sent after a third record was appended
C31_Witness ==
    /\ pcRun = "post" /\ retval = "False"
    /\ Len(Batch) = 2 /\ Len(lastBatch) >= 1
    /\ Len(appended) = 3
    /\ Batch[1].time = [kind |-> "epoch", v |-> 1]
    /\ to_xmit[1].time = [kind |-> "epoch", v |-> 1]

\* C32: when the send callback raises, no exception leaves insert_batch and
\* the result is True exactly when the status of the response is 200.
C32_CallbackCannotChangeResult ==
    called = "raises" =>
        /\ pcRun # "dead"
        /\ lastOutcome.kind = "status"
        /\ retval = (IF lastOutcome.status = 200 THEN "True" ELSE "False")

C32_Witness ==
    /\ called = "raises" /\ pcRun = "sleep"
    /\ lastOutcome = Status(200) /\ retval = "True"
    /\ to_xmit = <<>>

\* C33: no batch handed to the transport is empty, and a tick on which the
\* working set is empty after the drain sends nothing.
C33_NeverSendsEmptyBatch ==
    /\ [](net.stage # "idle" => Batch # <<>>)
    /\ [](pcRun = "post" => to_xmit # <<>>)
    /\ [][(pcRun = "check" /\ to_xmit = <<>>) => (net' = Idle /\ pcRun' # "post")]_vars

\* a tick with nothing to send, after a send that succeeded
C33_Witness ==
    /\ pcRun = "sleep" /\ net = Idle
    /\ to_xmit = <<>> /\ cache = <<>>
    /\ retval = "True" /\ lastOutcome = NoOutcome
    /\ Len(appended) >= 1

----------------------------------------------------------------------------
(* Properties of the notification *)

\* C34: dbus-send is run for a request only when the batch of that request was
\* committed: the request was not answered with 400 or 403, the database did
\* not fail, and the rows of the batch are stored.
C34_NotifyOnlyAfterCommit ==
    (served > 0 /\ Len(gates) = Len(Gates)) =>
        /\ req.json
        /\ resp \notin {400, 403}
        /\ env.known => ~env.dbFails
        /\ Added = RowsFor(Sent)

----------------------------------------------------------------------------
(* Properties of the fan controller *)

\* C38: onoff-func of an entry is called only when its recorded state
\* changes: with True only from off and an average of at least on-thresh, with
\* False only from on and an average of at most off-thresh; an average strictly
\* between the thresholds changes nothing and makes no call; two consecutive
\* calls for one sensor never carry the same value.
C38_Hysteresis ==
    /\ fanlog.made = "on" =>
           /\ ~fanlog.was_on /\ fan_is_on[fanlog.sensor]
           /\ fanlog.aqi.has /\ fanlog.aqi.v >= CONFIG[fanlog.sensor].on_thresh
    /\ fanlog.made = "off" =>
           /\ fanlog.was_on /\ ~fan_is_on[fanlog.sensor]
           /\ fanlog.aqi.has /\ fanlog.aqi.v <= CONFIG[fanlog.sensor].off_thresh
    /\ (fanlog.made = "none" /\ fanlog.sensor \in SensorNames) =>
           fan_is_on[fanlog.sensor] = fanlog.was_on
    /\ (/\ fanlog.sensor \in SensorNames /\ fanlog.aqi.has
        /\ fanlog.aqi.v > CONFIG[fanlog.sensor].off_thresh
        /\ fanlog.aqi.v < CONFIG[fanlog.sensor].on_thresh) =>
           fanlog.made = "none"
    /\ \A s \in SensorNames : \A i \in 1..(Len(fanlog.calls[s]) - 1) :
           fanlog.calls[s][i] # fanlog.calls[s][i + 1]

\* a fan was switched on and off, and an average between its thresholds
\* leaves it off
C38_Witness ==
    /\ fanlog.sensor = "gracie-bedroom"
    /\ fanlog.calls["gracie-bedroom"] = <<TRUE, FALSE>>
    /\ fanlog.aqi = Present(3499)
    /\ fanlog.made = "none" /\ ~fan_is_on["gracie-bedroom"]

\* C39: the recorded state of every entry is the last value its onoff-func
\* completed for, and a call of onoff-func that raises leaves the recorded
\* state as it was.
C39_RecordedIsLastCompleted ==
    /\ \A s \in SensorNames :
           fanlog.completed[s] # "none" => fan_is_on[s] = (fanlog.completed[s] = "on")
    /\ fanlog.ended = "raises" => fan_is_on[fanlog.sensor] = fanlog.was_on

----------------------------------------------------------------------------
(* Properties of the OAuth handler *)

\* C35: a refresh token returned by an authorization-code exchange is accepted
\* whenever it is presented: the answer is 200, the new access token is stored
\* and not expired, and the refresh token stays in refresh_tokens.
C35_RefreshAlwaysWorks ==
    (answer.op = "refresh" /\ answer.arg \in IssuedIds("returned")) =>
        /\ answer.status = 200
        /\ answer.arg \in Keys(refresh_tokens)
        /\ \E a \in tokens :
              /\ a.id = Lookup(refresh_tokens, answer.arg).access_token
              /\ a.refresh_token = answer.arg

\* C36: a callback whose state is unknown or expired is answered with 400
\* 'Invalid or expired state'.
C36_StaleStateIs400 ==
    (answer.op = "callback" /\ answer.stale) =>
        answer.status = 400 /\ answer.error = "Invalid or expired state"

\* C37: at most one pair of tokens is ever created for one authorization
\* code, and an exchange of a code is answered with the tokens or with
\* invalid_grant.
C37_CodeIsSingleUse ==
    /\ \A c \in IssuedIds("code") :
           Cardinality({m \in minted : m.kind = "refresh" /\ m.code = c}) <= 1
    /\ answer.op = "token" =>
           \/ answer.status = 200
           \/ answer.status = 400 /\ answer.error = "invalid_grant"

----------------------------------------------------------------------------
(* Properties of the arduino reader *)

\* C40: every record appended before the reader stopped is eventually carried
\* by a successful send.
C40_StoppedReaderLosesNothing ==
    \A i \in 1..MaxRecords :
        (pcReader = "dead" /\ Len(appended) >= i) ~> Delivered(i)

====
